---- MODULE Spec2Model ----
(***************************************************************************)
(* Model of dhowden/magma, package proc: the Process lifecycle manager     *)
(* (proc.go: Start, Execute, Quit, InterruptExecution, Kill, Getpid, Wait  *)
(* and the two stdout goroutines), the protocol decoder (parseStdoutLines  *)
(* and its parse helpers), the response multiplexer rhandler (response.go) *)
(* and the Combine consumer, together with the child process that produces *)
(* the tag lines and consumes stdin.                                       *)
(*                                                                         *)
(* Go channels are modelled by their buffers (a sequence, with the         *)
(* capacity of the make() call); an unbuffered send is a rendezvous: the   *)
(* sender parks in a pc value and the receiver's action completes both.    *)
(* Objects allocated at run time (Output, Response, offer channel,         *)
(* acknowledgment channel, ReadRequest) are records in a sequence, and a   *)
(* pointer is the index of the record; Nil is the nil pointer.             *)
(***************************************************************************)
EXTENDS Integers, Sequences, FiniteSets, TLC

\* ------------------------------------------------------------------ bounds

\* How many lines the child may write in one behaviour of its own accord:
\* event lines (OUT, EI, POS, RES), statement openers (RUN, ERP) and prompt
\* lines (RD_PR), and after how many lines of any kind it writes no more of
\* these. The lines the protocol obliges it to write (RDY, IR, INT, QUIT,
\* RD_IN) are not limited.
MaxLines == 8
MaxEvents == 2
MaxStmts == 2
MaxPromptLines == 3
\* Lines that may sit in the stdout pipe before the decoder reads them.
PipeCap == 1
\* InterruptExecution calls made in one behaviour.
MaxIntr == 1
\* Lines written by a child that follows no protocol.
MaxAnyLines == 4

\* ------------------------------------------------------- program constants

Nil == 0
ReadyCap == 1
ResponseCap == 1
WriterCap == 1
InterruptCap == 1
QuitCap == 1
RchCap == 1

\* The two tasks that call Execute, and the command texts they may submit.
Callers == {"c1", "c2"}
CmdsOf(c) == IF c = "c1" THEN {"a"} ELSE {"b"}
\* The two calls of Quit, each of which calls Execute with the quit command.
Quitters == {"q1", "q2"}
QuitCmd == "quit;"
Tasks == Callers \cup Quitters
\* The outcome of a call that returned (or panicked) without blocking: the
\* operation, "ok", "error" or "panic", the text, and whether the decoder
\* had ended and Wait had closed the channels when it was made.
Outcome(op, kind, text, ended, closed) ==
    [op |-> op, kind |-> kind, text |-> text, ended |-> ended, closed |-> closed]
NoCall == Outcome("", "", "", FALSE, FALSE)
\* The channels of the Process that Start and Wait close.
ChanNames ==
    {"startUp", "writer", "ready", "response", "status", "interrupt", "quit"}
StartupCmd == "<startup>"
RunChar == "^D"
NL == "\n"

\* ---------------------------------------------------------------- helpers

Last(s) == s[Len(s)]
Front(s) == SubSeq(s, 1, Len(s) - 1)
IsSpace(ch) == ch \in {" ", NL}

RECURSIVE TrimLeft(_)
TrimLeft(s) == IF s # <<>> /\ IsSpace(Head(s)) THEN TrimLeft(Tail(s)) ELSE s

RECURSIVE TrimRight(_)
TrimRight(s) == IF s # <<>> /\ IsSpace(Last(s)) THEN TrimRight(Front(s)) ELSE s

TrimSpace(s) == TrimLeft(TrimRight(s))

\* strconv.Atoi on the field tokens the model uses.
IntTokens == {"0", "1", "2"}
IsInt(t) == t \in IntTokens
Atoi(t) == CASE t = "0" -> 0 [] t = "1" -> 1 [] t = "2" -> 2 [] OTHER -> 0

\* ------------------------------------------------------------ tag names

StatusTagNames == {"RDY", "IR", "RES", "QUIT", "INT", "RUN", "ERP"}
LineTagNames == {"OUT", "LST", "EU", "ER", "EI", "EPO", "TB", "SIG"}
PromptTagNames == {"RD_PR", "RDI_PR"}
InputTagNames == {"RD_IN", "RDI_IN"}

\* A raw line of the child's stdout: whether it starts with the sentinel
\* byte, the whitespace-separated tokens of its header segment, and the raw
\* bytes of its data segment.
RawLine(mark, head, data) == [mark |-> mark, head |-> head, data |-> data]
TagLine(tag, fields, data) == RawLine(TRUE, <<tag>> \o fields, data)

\* parseTagLine: tag name ("" for a line that carries no tag), auxiliary
\* fields and data (surrounding whitespace trimmed).
parseTagLine(line) ==
    IF line.mark /\ Len(line.head) > 0
    THEN [tagName |-> Head(line.head), tagFields |-> Tail(line.head),
          data |-> TrimSpace(line.data)]
    ELSE [tagName |-> "", tagFields |-> <<>>, data |-> <<>>]

\* ------------------------------------------------------------------ state

VARIABLES
    \* Process fields (proc.go:45-54)
    ready,      \* p.ready: buffer of offer channels (indices into rchs)
    response,   \* p.response: buffer of Outputs
    writer,     \* p.writer: buffer holding the stdin writer
    interrupt,  \* p.interrupt: buffer of acknowledgment channels
    quit,       \* p.quit: buffer of acknowledgment channels
    statusLog,  \* what the consumer of p.status has received, in order
    \* heap objects
    rchs,       \* offer channels: [buf, closed]
    acks,       \* acknowledgment channels: [kind, closed, busy]
    outs,       \* Outputs: [cmd, closed, cpc, ccur, got]
    resps,      \* Responses: [kind, closed, of]
    reqs,       \* ReadRequests: [tag, prompt, fromOutput, fromErr, errv, at]
    \* the Start call
    spc,
    \* the decoder task (parseStdoutLines)
    dpc, derr, h_r, h_c, rch, pend, rreq, dw, dreply,
    \* Execute calls, one per caller
    epc, ecmd, erch, eout, ew, eret, eerr,
    \* the InterruptExecution caller
    ich, icalls,
    \* the child process and its pipes
    chst, chcmd, pipe, stdin, stdinPos, sig, used,
    \* history: lines the decoder has processed; Outputs in binding order,
    \* each with the index in seen of the line that bound it (0: bound before
    \* the first line); events the decoder has handed to rhandler.send, each
    \* with the number of bindings made so far, the Response it goes to and
    \* the index of its line
    seen, bound, fwd,
    \* the end of the session: p.errch, and whether SIGKILL was sent
    errch, ksig,
    \* how often each channel of the Process was closed; the line-reader
    \* goroutine; the Wait call; the Quit calls; the last call that returned
    \* at once
    chclosed, rpc, rerr, wpc, wcopy, wos, wret, qpc, qch, last,
    \* package parse: the parser objects, each with its lineConsumer, the
    \* channel it reads lines from and its output channel; what the reader
    \* of a parser's output has received in testParser; the lines handed
    \* to the parser there and the input slice they come from
    prs, pgot, plines, pdoc,
    \* ParseTagged: its position, the event in hand, the selected parser,
    \* the channels src and done, the goroutine that turns events into
    \* lines, the goroutine that forwards the parser's output, the number
    \* of events received from in and whether in is closed, and what was
    \* received from in, sent on src and received on out
    tpc, tx, tcur, src, done, ts, fw, tin, tseen, tsent, tout,
    \* the line reader seen byte by byte: the bufio.Scanner with its buffer
    \* and the stdout still to read; the goroutine with the token b and its
    \* copy l; the receiver of ch with the slice it was handed
    scanner, rdr, dline

procVars == <<ready, response, writer, interrupt, quit, statusLog>>
heapVars == <<rchs, acks, outs, resps, reqs>>
decVars == <<dpc, derr, h_r, h_c, rch, pend, rreq, dw, dreply>>
execVars == <<epc, ecmd, erch, eout, ew, eret, eerr>>
intrVars == <<ich, icalls>>
childVars == <<chst, chcmd, pipe, stdin, stdinPos, sig, used>>
histVars == <<seen, bound, fwd>>
endVars == <<errch, ksig>>
lifeVars == <<chclosed, rpc, rerr, wpc, wcopy, wos, wret, qpc, qch, last>>
scanVars == <<scanner, rdr, dline>>
sessionVars ==
    <<procVars, heapVars, spc, decVars, execVars, intrVars, childVars,
      histVars, endVars, lifeVars, scanVars>>
parserVars == <<prs, pgot, plines, pdoc>>
taggedVars == <<tpc, tx, tcur, src, done, ts, fw, tin, tseen, tsent, tout>>
parseVars == <<parserVars, taggedVars>>
vars == <<sessionVars, parseVars>>

\* ------------------------------------------ package parse: zero values

\* The parser objects of the model, by kind: a SignatureParser, an
\* ErrorPositionParser, a TracebackParser and a second SignatureParser.
ParserList == <<"sig", "epo", "tb", "sig">>
Parsers == 1..Len(ParserList)

\* &SignatureParser{}, &ErrorPositionParser{}, &TracebackParser{}: no
\* lineConsumer, no error, no current record, no output channel. fn is the
\* state function the parser is in ("idle" before start); line and
\* processed are the lineConsumer; heap holds the ErrorPosition nodes
\* made, cur and sub point into it; acc holds the text a state function
\* gathers over several lines; inq and inClosed are the channel the
\* lineConsumer reads, emit and outClosed the output channel with the
\* values the parser is sending.
newParser(kind) ==
    [kind |-> kind, fn |-> "idle", line |-> <<>>, processed |-> TRUE,
     err |-> "", intrinsic |-> <<>>, cur |-> Nil, sub |-> Nil, heap |-> <<>>,
     acc |-> <<>>, inq |-> <<>>, inClosed |-> FALSE, emit |-> <<>>,
     outClosed |-> FALSE]

\* The scanner's buffer, which holds BufCap bytes, scaled down from the
\* 4096 bytes a Scanner starts with; the lines of a run are shorter.
BufCap == 4
\* The lines the child may write in a run of the line reader.
MaxScanLines == 3
ScanLines == {<<"a">>, <<"b", "b">>}
NoSlice == [off |-> 0, len |-> 0]

\* The line reader was not started.
InitScan ==
    /\ scanner = [buf |-> [i \in 1..BufCap |-> ""], start |-> 0, end |-> 0,
                  stdout |-> <<>>]
    /\ rdr = [pc |-> "off", b |-> NoSlice, l |-> <<>>]
    /\ dline = [pc |-> "recv", output |-> [off |-> 0, len |-> 0, copy |-> <<>>],
                sent |-> <<>>, log |-> <<>>]

\* No parser was started and ParseTagged was not called.
InitParse ==
    /\ prs = [i \in Parsers |-> newParser(ParserList[i])]
    /\ pgot = <<>> /\ plines = <<>>
    /\ pdoc = [kind |-> "", p |-> Nil, items |-> <<>>, queue |-> <<>>,
               ended |-> FALSE, cut |-> FALSE]
    /\ tpc = "off" /\ tx = <<>> /\ tcur = Nil
    /\ src = "nil" /\ done = FALSE
    /\ ts = [st |-> "off", p |-> Nil]
    /\ fw = [st |-> "off", p |-> Nil, buf |-> <<>>, run |-> 0]
    /\ tin = [n |-> 0, closed |-> FALSE]
    /\ tseen = <<>> /\ tsent = <<>> /\ tout = [got |-> <<>>, closed |-> FALSE]

\* A Process on which Start was not called yet. Its channels are nil until
\* Start makes them: the values below are those that Start gives them
\* (proc.go:136-152), and nothing reads them before.
Init ==
    /\ ready = <<>> /\ response = <<>> /\ writer = <<"stdin">>
    /\ interrupt = <<>> /\ quit = <<>> /\ statusLog = <<>>
    /\ rchs = <<>> /\ acks = <<>> /\ outs = <<>> /\ resps = <<>> /\ reqs = <<>>
    /\ spc = "new"
    /\ dpc = "waitStart" /\ derr = "" /\ h_r = Nil /\ h_c = Nil /\ rch = Nil
    /\ pend = <<>> /\ rreq = Nil /\ dw = "" /\ dreply = ""
    /\ epc = [c \in Tasks |-> "idle"]
    /\ ecmd = [c \in Tasks |-> ""]
    /\ erch = [c \in Tasks |-> Nil]
    /\ eout = [c \in Tasks |-> Nil]
    /\ ew = [c \in Tasks |-> ""]
    /\ eret = [c \in Tasks |-> Nil]
    /\ eerr = [c \in Tasks |-> ""]
    /\ ich = Nil /\ icalls = 0
    /\ chst = "off" /\ chcmd = "" /\ pipe = <<>> /\ stdin = <<>>
    /\ stdinPos = 0 /\ sig = 0
    /\ used = [line |-> 0, event |-> 0, stmt |-> 0, prompt |-> 0]
    /\ seen = <<>> /\ bound = <<>> /\ fwd = <<>>
    /\ errch = <<>> /\ ksig = FALSE
    /\ chclosed = [n \in ChanNames |-> 0]
    /\ rpc = "scan" /\ rerr = ""
    /\ wpc = "idle" /\ wcopy = "" /\ wos = "" /\ wret = ""
    /\ qpc = [c \in Quitters |-> "idle"]
    /\ qch = [c \in Quitters |-> Nil]
    /\ last = NoCall
    /\ InitScan
    /\ InitParse

\* --------------------------------------------------------- heap helpers

\* newOutput(input): an Output with an open, unbuffered Responses channel.
\* cpc, ccur and got are the Combine goroutine reading it.
newOutput(input) ==
    [cmd |-> input, closed |-> 0, cpc |-> "none", ccur |-> Nil, got |-> <<>>]

\* A responser of the given variant with an open, unbuffered event channel:
\* response{ch: make(chan Tagged)}, which leaves cmd the empty string. of
\* is the Output it is published on, at the number of the line that made
\* it.
mkResponse(kind, o) ==
    [kind |-> kind, cmd |-> <<>>, closed |-> 0, of |-> o, at |-> 0]
\* response.Command
Command(r) == r.cmd

\* close(ch) of a Response / of an Output: the number of close calls made.
closeResponse(rs, id) == [rs EXCEPT ![id].closed = @ + 1]
closeOutputNot(os, id) == os
closeOutput(os, id) == [os EXCEPT ![id].closed = @ + 1]

\* A second close of a channel panics.
DoubleClose(os, rs) ==
    \/ \E i \in 1..Len(os) : os[i].closed > 1
    \/ \E i \in 1..Len(rs) : rs[i].closed > 1

\* ------------------------------------------------------- field parsers

\* Each parser returns [err, val]: err is "" on success, the error text on
\* a returned error, and starts with "panic" when the code panics.

\* parseReady: five fields, the fifth an integer.
parseReady(tagFields) ==
    IF Len(tagFields) # 5
    THEN [err |-> "parsing RDY: require 5 parameters", val |-> <<>>]
    ELSE IF ~IsInt(tagFields[5])
    THEN [err |-> "RDY parsing number of types", val |-> <<>>]
    ELSE [err |-> "",
          val |-> [kind |-> "Ready", tag |-> "RDY",
                   Ident |-> tagFields[1] = "1", Frame |-> tagFields[2] = "1",
                   Verbose |-> tagFields[3] = "1", Set |-> tagFields[4] = "1",
                   Types |-> Atoi(tagFields[5])]]

\* parseHistoryPosition: two integer fields, row and column.
parseHistoryPosition(tagFields) ==
    IF Len(tagFields) # 2
    THEN [err |-> "position output not of required form", val |-> <<>>]
    ELSE IF ~IsInt(tagFields[1]) \/ ~IsInt(tagFields[2])
    THEN [err |-> "strconv.Atoi: invalid syntax", val |-> <<>>]
    ELSE [err |-> "",
          val |-> [kind |-> "Position", tag |-> "POS",
                   Row |-> Atoi(tagFields[1]), Column |-> Atoi(tagFields[2])]]

\* parseResponse: the length test sets err without returning, so the two
\* positions are parsed whatever the length; tagFields[:2] of fewer than
\* two fields is out of range.
parseResponse(tagFields) ==
    IF Len(tagFields) < 2
    THEN [err |-> "panic: slice bounds out of range", val |-> <<>>]
    ELSE LET start == parseHistoryPosition(SubSeq(tagFields, 1, 2))
             end == parseHistoryPosition(SubSeq(tagFields, 3, Len(tagFields)))
         IN  IF start.err # "" THEN [err |-> start.err, val |-> <<>>]
             ELSE IF end.err # "" THEN [err |-> end.err, val |-> <<>>]
             ELSE [err |-> "", val |-> [start |-> start.val, end |-> end.val]]

\* parseRun: seed, step and a chunk.
parseRun(tagFields) ==
    IF Len(tagFields) # 6
    THEN [err |-> "parsing RUN: require 6 parameters", val |-> <<>>]
    ELSE IF ~IsInt(tagFields[1]) \/ ~IsInt(tagFields[2])
    THEN [err |-> "strconv.Atoi: invalid syntax", val |-> <<>>]
    ELSE LET c == parseResponse(SubSeq(tagFields, 3, 6))
         IN  IF c.err # "" THEN c
             ELSE [err |-> "",
                   val |-> [chunk |-> c.val,
                            seed |-> [Seed |-> Atoi(tagFields[1]),
                                      Step |-> Atoi(tagFields[2])]]]

\* parseOutput: one field, "C" or the indent; data with trailing
\* whitespace removed.
parseOutput(tag, tagFields, data) ==
    IF Len(tagFields) # 1
    THEN [err |-> "output tag not of required form", val |-> <<>>]
    ELSE IF tagFields[1] # "C" /\ ~IsInt(tagFields[1])
    THEN [err |-> "strconv.Atoi: invalid syntax", val |-> <<>>]
    ELSE [err |-> "",
          val |-> [kind |-> "Line", tag |-> tag,
                   Continuation |-> tagFields[1] = "C",
                   Indent |-> IF tagFields[1] = "C" THEN 0 ELSE Atoi(tagFields[1]),
                   Data |-> TrimRight(data)]]

\* ------------------------------------------------- the decoder's state

\* Everything the decoder task reads or writes, as one record, so that a
\* handler is a function from this record to the next one.
DecState ==
    [dpc |-> dpc, derr |-> derr, r |-> h_r, c |-> h_c, rch |-> rch,
     pend |-> pend, rreq |-> rreq, ret |-> FALSE,
     ready |-> ready, response |-> response, quit |-> quit,
     interrupt |-> interrupt, status |-> statusLog,
     rchs |-> rchs, acks |-> acks, outs |-> outs, resps |-> resps,
     reqs |-> reqs, bound |-> bound, fwd |-> fwd,
     errch |-> errch, ksig |-> ksig,
     nline |-> IF dpc = "boot" THEN 0 ELSE Len(seen) + 1]

\* The decoder's variables take the values of the record s.
Commit(s) ==
    /\ dpc' = s.dpc /\ derr' = s.derr /\ h_r' = s.r /\ h_c' = s.c
    /\ rch' = s.rch /\ pend' = s.pend /\ rreq' = s.rreq
    /\ ready' = s.ready /\ response' = s.response /\ quit' = s.quit
    /\ interrupt' = s.interrupt /\ statusLog' = s.status
    /\ rchs' = s.rchs /\ acks' = s.acks /\ outs' = s.outs
    /\ resps' = s.resps /\ reqs' = s.reqs /\ bound' = s.bound /\ fwd' = s.fwd
    /\ errch' = s.errch /\ ksig' = s.ksig

Stopped(s) == s.dpc \in {"done", "panic"}
Panic(s, msg) == [s EXCEPT !.dpc = "panic", !.derr = msg]
\* return err from parseStdoutLines ("" is a nil error), and what the
\* decoder goroutine does with it: p.errch <- err; if err != nil
\* { p.Kill() }; close(stop)
Return(s, err) ==
    [s EXCEPT !.dpc = "done", !.derr = err, !.errch = Append(@, err),
              !.ksig = @ \/ err # ""]
\* a value handed to the consumer of p.status
sendStatus(s, ev) == [s EXCEPT !.status = Append(@, ev)]
Status(tag) == [kind |-> "Status", tag |-> tag]

\* ------------------------------------------------------------ rhandler

\* Park the decoder in h.c.send(t): a send on a closed channel panics.
enterSend(s) ==
    IF s.resps[s.c].closed > 0 THEN Panic(s, "panic: send on closed channel")
    ELSE [s EXCEPT !.dpc = "sendEvent"]

\* rhandler.ready: close and forget the current Response and Output;
\* ret tells whether an Output was bound.
rhandlerReadyKeepsCurrent(s) ==
    LET s1 == IF s.c # Nil
              THEN [s EXCEPT !.resps = closeResponse(@, s.c)]
              ELSE s
        s2 == IF s1.r # Nil
              THEN [s1 EXCEPT !.outs = closeOutput(@, s1.r), !.r = Nil, !.ret = TRUE]
              ELSE [s1 EXCEPT !.ret = FALSE]
    IN  s2
rhandlerReady(s) ==
    LET s1 == IF s.c # Nil
              THEN [s EXCEPT !.resps = closeResponse(@, s.c), !.c = Nil]
              ELSE s
        s2 == IF s1.r # Nil
              THEN [s1 EXCEPT !.outs = closeOutput(@, s1.r), !.r = Nil, !.ret = TRUE]
              ELSE [s1 EXCEPT !.ret = FALSE]
    IN  IF DoubleClose(s2.outs, s2.resps)
        THEN Panic(s2, "panic: close of closed channel") ELSE s2

\* rhandler.init: bind the Output e.
rhandlerInit(s, e) ==
    IF s.r # Nil THEN Panic(s, "panic: should not have r set here")
    ELSE [s EXCEPT !.r = e, !.bound = Append(@, [out |-> e, at |-> s.nline])]

\* rhandler.newResponse: close the Response that is still open, make the new
\* one current and park in the send that publishes it on the Output's
\* channel.
rhandlerNewResponseKeepsOld(s, kind) ==
    LET s2 == [s EXCEPT !.resps = Append(@, [mkResponse(kind, s.r) EXCEPT !.at = s.nline]),
                        !.c = Len(s.resps) + 1]
    IN  IF s2.r = Nil THEN Panic(s2, "panic: nil pointer dereference")
        ELSE [s2 EXCEPT !.dpc = "sendResp"]
rhandlerNewResponse(s, kind) ==
    LET s1 == IF s.c # Nil THEN [s EXCEPT !.resps = closeResponse(@, s.c)] ELSE s
        s2 == [s1 EXCEPT !.resps = Append(@, [mkResponse(kind, s1.r) EXCEPT !.at = s1.nline]),
                         !.c = Len(s1.resps) + 1]
    IN  IF DoubleClose(s1.outs, s1.resps)
        THEN Panic(s1, "panic: close of closed channel")
        ELSE IF s2.r = Nil
        THEN Panic(s2, "panic: nil pointer dereference")
        ELSE IF s2.outs[s2.r].closed > 0
        THEN Panic(s2, "panic: send on closed channel")
        ELSE [s2 EXCEPT !.dpc = "sendResp"]

\* rhandler.start / run / parseError
rhandlerStart(s) == rhandlerNewResponse(s, "start")
rhandlerRun(s) == rhandlerNewResponse(s, "Run")
rhandlerParseError(s) == rhandlerNewResponse(s, "ParseError")

\* rhandler.internalError: a new Response only if none is current.
rhandlerInternalError(s) ==
    IF s.c = Nil THEN rhandlerNewResponse(s, "InternalError") ELSE s

\* rhandler.send: the event t goes to the current Response. When the
\* handler is still parked publishing a Response, the send follows it.
rhandlerSend(s, t) ==
    LET s1 == [s EXCEPT !.pend = <<t>>,
                        !.fwd = Append(@, [ev |-> t, epoch |-> Len(s.bound),
                                           resp |-> s.c, at |-> s.nline])]
    IN  IF Stopped(s) THEN s
        ELSE IF s.c = Nil THEN Panic(s, "panic: no current output")
        ELSE IF s.dpc = "sendResp" THEN s1
        ELSE enterSend(s1)

\* ------------------------------------ parseStdoutLines: one tag, one case

PanicTexts == {"panic: slice bounds out of range"}

\* A decoder that makes an offer on every RDY line, whether or not an
\* Output was bound.
onReadyAlways(s, t) ==
    LET pr == parseReady(t.tagFields)
        s1 == rhandlerReady(sendStatus(s, pr.val))
        id == Len(s1.rchs) + 1
        s2 == [s1 EXCEPT !.rchs = Append(@, [buf |-> <<>>, closed |-> 0]),
                         !.rch = id]
    IN  IF pr.err # "" THEN Return(s, pr.err)
        ELSE IF Stopped(s1) THEN s1
        ELSE IF Len(s2.ready) < ReadyCap
        THEN [s2 EXCEPT !.ready = Append(@, id)]
        ELSE [s2 EXCEPT !.dpc = "putReady"]

\* case TagReady
onReady(s, t) ==
    LET pr == parseReady(t.tagFields)
        s1 == rhandlerReady(sendStatus(s, pr.val))
        id == Len(s1.rchs) + 1
        s2 == [s1 EXCEPT !.rchs = Append(@, [buf |-> <<>>, closed |-> 0]),
                         !.rch = id]
    IN  IF pr.err # "" THEN Return(s, pr.err)
        ELSE IF Stopped(s1) \/ ~s1.ret THEN s1
        ELSE IF Len(s2.ready) < ReadyCap
        THEN [s2 EXCEPT !.ready = Append(@, id)]
        ELSE [s2 EXCEPT !.dpc = "putReady"]

\* case TagInputReceived
onInputReceived(s, t) ==
    LET s1 == sendStatus(s, Status("IR"))
        r == Head(s1.rchs[s1.rch].buf)
        s2 == rhandlerInit(s1, r)
        s3 == [s2 EXCEPT !.rchs[s1.rch] = [buf |-> <<>>, closed |-> @.closed + 1],
                         !.rch = Nil]
    IN  IF s1.rch = Nil \/ s1.rchs[s1.rch].buf = <<>>
        THEN Return(s1, "expected Output to be waiting")
        ELSE IF Stopped(s2) THEN s2
        ELSE IF Len(s3.response) < ResponseCap
        THEN [s3 EXCEPT !.response = Append(@, r)]
        ELSE [s3 EXCEPT !.dpc = "putResponse"]

\* case TagReset
onResetSilent(s, t) == s
onReset(s, t) == sendStatus(s, Status("RES"))

\* select { case ch := <-acks: close(ch); default: }
ackPending(s, buf) ==
    IF buf = <<>> THEN s ELSE [s EXCEPT !.acks[Head(buf)].closed = @ + 1]

\* case TagQuit
onQuitNoAck(s, t) == Return(sendStatus(s, Status("QUIT")), "")
onQuit(s, t) ==
    LET s1 == ackPending(sendStatus(s, Status("QUIT")), s.quit)
    IN  Return([s1 EXCEPT !.quit = IF @ = <<>> THEN @ ELSE Tail(@)], "")

\* case TagInterrupt
onInterruptNoAck(s, t) == sendStatus(s, Status("INT"))
onInterruptStrict(s, t) ==
    IF s.interrupt = <<>>
    THEN Return(sendStatus(s, Status("INT")), "unexpected INT")
    ELSE [ackPending(sendStatus(s, Status("INT")), s.interrupt)
             EXCEPT !.interrupt = Tail(@)]
onInterrupt(s, t) ==
    LET s1 == ackPending(sendStatus(s, Status("INT")), s.interrupt)
    IN  [s1 EXCEPT !.interrupt = IF @ = <<>> THEN @ ELSE Tail(@)]

\* case TagRun
onRun(s, t) ==
    LET s1 == sendStatus(s, Status("RUN"))
        pr == parseRun(t.tagFields)
    IN  IF pr.err # "" THEN Return(s1, pr.err) ELSE rhandlerRun(s1)

\* case TagErrorParse
onErrorParse(s, t) ==
    LET s1 == sendStatus(s, Status("ERP"))
        pr == parseResponse(t.tagFields)
    IN  IF pr.err \in PanicTexts THEN Panic(s1, pr.err)
        ELSE IF pr.err # "" THEN Return(s1, "ERP parsing Response")
        ELSE rhandlerParseError(s1)

\* case TagErrorHistoryPosition
onPosition(s, t) ==
    LET pr == parseHistoryPosition(t.tagFields)
    IN  IF pr.err # "" THEN Return(s, pr.err) ELSE rhandlerSend(s, pr.val)

\* case TagOutput, TagList, TagErrorUser, TagErrorRuntime, TagErrorInternal,
\*      TagErrorPosition, TagTraceback, TagSignature
onLine(s, t) ==
    LET pr == parseOutput(t.tagName, t.tagFields, t.data)
        s1 == IF t.tagName = "EI" THEN rhandlerInternalError(s) ELSE s
    IN  IF pr.err # "" THEN Return(s, pr.err) ELSE rhandlerSend(s1, pr.val)

\* case TagErrorSyntax
onErrorSyntax(s, t) ==
    rhandlerSend(s, [kind |-> "Line", tag |-> "ENE", Continuation |-> FALSE,
                     Indent |-> 0, Data |-> <<>>])

\* case TagReadPrompt, TagReadIntPrompt: parseReadPrompt up to its loop
onReadPrompt(s, t) ==
    [s EXCEPT !.reqs = Append(@, [tag |-> t.tagName, prompt |-> t.data,
                                  fromOutput |-> 0, fromErr |-> 0,
                                  errv |-> "", at |-> s.nline]),
              !.rreq = Len(s.reqs) + 1,
              !.dpc = "readPrompt"]

\* a line with no tag, or a tag neither switch names: nothing happens
onOther(s, t) == s

\* ---------------------------------------------- parseReadPrompt's loop

\* case TagReadPrompt, TagReadIntPrompt
onPromptMoreNewline(s, t) ==
    IF Len(t.tagFields) = 0 THEN Panic(s, "panic: index out of range")
    ELSE [s EXCEPT !.reqs[s.rreq].prompt = Append(@, NL) \o t.data]
onPromptMore(s, t) ==
    IF Len(t.tagFields) = 0 THEN Panic(s, "panic: index out of range")
    ELSE [s EXCEPT !.reqs[s.rreq].prompt =
                      (IF t.tagFields[1] # "C" THEN Append(@, NL) ELSE @) \o t.data]

\* case TagReadInput, TagReadIntInput: h.send(r), then the select
onPromptInput(s, t) ==
    rhandlerSend(s, [kind |-> "ReadRequest", tag |-> s.reqs[s.rreq].tag,
                     req |-> s.rreq])

\* default, and the line that carries no tag
onPromptBad(s, t) ==
    IF t.tagName = "" THEN Return(s, "expected tag line (RD_PR or RD_IN tag line)")
    ELSE Return(s, "expected RD_PR or RD_IN tag")

\* switch tag := statusTag(tagName), then switch tag := tag(tagName)
dispatch(s, t) ==
    CASE t.tagName = "RDY" -> onReady(s, t)
      [] t.tagName = "IR" -> onInputReceived(s, t)
      [] t.tagName = "RES" -> onReset(s, t)
      [] t.tagName = "QUIT" -> onQuit(s, t)
      [] t.tagName = "INT" -> onInterrupt(s, t)
      [] t.tagName = "RUN" -> onRun(s, t)
      [] t.tagName = "ERP" -> onErrorParse(s, t)
      [] t.tagName = "POS" -> onPosition(s, t)
      [] t.tagName \in LineTagNames -> onLine(s, t)
      [] t.tagName = "ENE" -> onErrorSyntax(s, t)
      [] t.tagName \in PromptTagNames -> onReadPrompt(s, t)
      [] OTHER -> onOther(s, t)

\* switch tag := string(tag) in parseReadPrompt
dispatchPrompt(s, t) ==
    CASE t.tagName \in PromptTagNames -> onPromptMore(s, t)
      [] t.tagName \in InputTagNames -> onPromptInput(s, t)
      [] OTHER -> onPromptBad(s, t)

\* ---------------------------------------------------------------- Start

\* close(ch), once more
closeChanButStatus(cl, names) ==
    [n \in ChanNames |->
        IF n \in names \ {"status"} THEN cl[n] + 1 ELSE cl[n]]
closeChan(cl, names) ==
    [n \in ChanNames |-> IF n \in names THEN cl[n] + 1 ELSE cl[n]]

\* checkRunning: p.cmd is nil until Start has made it and after a failed
\* launch; p.cmd.Process is nil until cmd.Start() has succeeded.
checkRunning ==
    CASE spc \in {"new", "failed"} -> "magma/proc: process not started"
      [] spc = "launch" -> "magma/proc: process is not running"
      [] OTHER -> ""

\* Start up to cmd.Start(): the command, the pipes and the channels are
\* made, the two stdout goroutines are launched and the stdin writer is put
\* into p.writer.
StartMake ==
    /\ spc = "new"
    /\ spc' = "launch"
    /\ last' = NoCall
    /\ UNCHANGED <<scanVars, parseVars, procVars, heapVars, decVars, execVars, intrVars, childVars,
                   histVars, endVars, chclosed, rpc, rerr, wpc, wcopy, wos,
                   wret, qpc, qch>>

\* cmd.Start() succeeds; p.startUp <- struct{}{} is received by the decoder
\* goroutine, which enters parseStdoutLines; close(p.startUp).
StartOK ==
    /\ spc = "launch" /\ dpc = "waitStart"
    /\ spc' = "awaitStartup" /\ dpc' = "boot" /\ chst' = "boot"
    /\ chclosed' = closeChan(chclosed, {"startUp"})
    /\ UNCHANGED <<scanVars, parseVars, procVars, heapVars, derr, h_r, h_c, rch, pend, rreq, dw,
                   dreply, execVars, intrVars, chcmd, pipe, stdin, stdinPos,
                   sig, used, histVars, endVars, rpc, rerr, wpc, wcopy, wos,
                   wret, qpc, qch, last>>

\* cmd.Start() fails: the writer is taken out of p.writer, every channel is
\* closed, p.cmd is forgotten and Start returns the error.
StartFail ==
    /\ spc = "launch" /\ dpc = "waitStart"
    /\ spc' = "failed"
    /\ writer' = Tail(writer)
    /\ chclosed' = closeChan(chclosed, ChanNames)
    /\ last' = Outcome("Start", "error", "starting command", FALSE, TRUE)
    /\ UNCHANGED <<scanVars, parseVars, ready, response, interrupt, quit, statusLog, heapVars,
                   decVars, execVars, intrVars, childVars, histVars, endVars,
                   rpc, rerr, wpc, wcopy, wos, wret, qpc, qch>>

\* The decoder goroutine finds p.startUp closed with nothing sent on it: it
\* does not decode; p.errch <- nil; close(stop).
DecSkip ==
    /\ dpc = "waitStart" /\ chclosed["startUp"] > 0
    /\ dpc' = "done"
    /\ errch' = Append(errch, "")
    /\ UNCHANGED <<scanVars, parseVars, procVars, heapVars, spc, derr, h_r, h_c, rch, pend, rreq, dw,
                   dreply, execVars, intrVars, childVars, histVars, ksig,
                   lifeVars>>

\* return <-p.response: Start returns the startup Output, and its caller
\* starts reading it (go ...(so.Output())).
StartReturn ==
    /\ spc = "awaitStartup" /\ response # <<>>
    /\ spc' = "started"
    /\ response' = Tail(response)
    /\ outs' = [outs EXCEPT ![Head(response)].cpc = "waitResp"]
    /\ UNCHANGED <<scanVars, parseVars, ready, writer, interrupt, quit, statusLog, rchs, acks, resps,
                   reqs, decVars, execVars, intrVars, childVars, histVars,
                   endVars, lifeVars>>

\* ------------------------------------------------------ the decoder task

notDec == <<writer, spc, dw, dreply, execVars, intrVars, lifeVars>>

\* parseStdoutLines before its loop: the startup Output is made, bound and
\* put into p.response, and the start Response is opened.
bootDecoderOffers(s) ==
    LET id == Len(s.outs) + 1
        s1 == rhandlerInit([s EXCEPT !.outs = Append(@, newOutput(StartupCmd))], id)
        s2 == [s1 EXCEPT !.response = Append(@, id),
                         !.rchs = Append(@, [buf |-> <<>>, closed |-> 0]),
                         !.rch = Len(s.rchs) + 1,
                         !.ready = Append(@, Len(s.rchs) + 1)]
    IN  rhandlerStart(s2)
bootDecoder(s) ==
    LET id == Len(s.outs) + 1
        s1 == rhandlerInit([s EXCEPT !.outs = Append(@, newOutput(StartupCmd))], id)
        s2 == [s1 EXCEPT !.response = Append(@, id)]
    IN  rhandlerStart(s2)

DecBoot ==
    /\ dpc = "boot"
    /\ \E d \in {DecState} : \E s \in {bootDecoder(d)} : Commit(s)
    /\ UNCHANGED <<scanVars, parseVars, notDec, childVars, seen>>

\* One iteration of the main loop: a line is received and its tag handled,
\* up to the first operation that blocks.
DecodeLine ==
    /\ dpc = "read" /\ pipe # <<>>
    /\ \E d \in {DecState}, t \in {parseTagLine(Head(pipe))} :
          \E s \in {dispatch(d, t)} : Commit(s)
    /\ pipe' = Tail(pipe)
    /\ seen' = Append(seen, parseTagLine(Head(pipe)))
    /\ UNCHANGED <<scanVars, parseVars, notDec, chst, chcmd, stdin, stdinPos, sig, used>>

\* One iteration of parseReadPrompt's loop.
DecodePromptLine ==
    /\ dpc = "readPrompt" /\ pipe # <<>>
    /\ \E d \in {DecState}, t \in {parseTagLine(Head(pipe))} :
          \E s \in {dispatchPrompt(d, t)} : Commit(s)
    /\ pipe' = Tail(pipe)
    /\ seen' = Append(seen, parseTagLine(Head(pipe)))
    /\ UNCHANGED <<scanVars, parseVars, notDec, chst, chcmd, stdin, stdinPos, sig, used>>

\* output, ok := <-ch with ch closed: the line reader has ended.
streamEndedNil(s) == Return(s, "")
streamEnded(s) ==
    IF s.dpc = "read" THEN Return(s, "waiting for tag line")
    ELSE Return(s, "expected tag line (RD or RD_END)")

DecodeEOF ==
    /\ dpc \in {"read", "readPrompt"} /\ pipe = <<>> /\ rpc = "done"
    /\ \E d \in {DecState} : \E s \in {streamEnded(d)} : Commit(s)
    /\ UNCHANGED <<scanVars, parseVars, notDec, childVars, seen>>

\* A blocked send of the decoder on a full buffer completes: p.ready <- rch
\* or p.response <- r.
canUnblock ==
    CASE dpc = "putReady" -> Len(ready) < ReadyCap
      [] dpc = "putResponse" -> Len(response) < ResponseCap
      [] OTHER -> FALSE

DecUnblock ==
    /\ canUnblock
    /\ ready' = IF dpc = "putReady" THEN Append(ready, rch) ELSE ready
    /\ response' = IF dpc = "putResponse" THEN Append(response, h_r) ELSE response
    /\ dpc' = "read"
    /\ UNCHANGED <<scanVars, parseVars, writer, interrupt, quit, statusLog, heapVars, spc, derr, h_r,
                   h_c, rch, pend, rreq, dw, dreply, execVars, intrVars,
                   childVars, histVars, endVars, lifeVars>>

\* w := <-p.writer
takeWriterCopy(w) == w
takeWriter(w) == Tail(w)
\* p.writer <- w (and a return that keeps the writer)
releaseWriterLost(w, tok) == w
releaseWriter(w, tok) == Append(w, tok)

\* w := <-p.writer; w.Write([]byte(response)). The child waits for the
\* reply, so it has not ended and the write does not fail.
DecWriteReply ==
    /\ dpc = "awaitWriter" /\ writer # <<>>
    /\ dw' = Head(writer)
    /\ writer' = takeWriter(writer)
    /\ stdin' = Append(stdin, [by |-> "dec", text |-> dreply])
    /\ dpc' = "write2"
    /\ UNCHANGED <<scanVars, parseVars, ready, response, interrupt, quit, statusLog, heapVars, spc,
                   derr, h_r, h_c, rch, pend, rreq, dreply, execVars, intrVars,
                   chst, chcmd, pipe, stdinPos, sig, used, histVars,
                   endVars, lifeVars>>

\* w.Write([]byte("\n")); p.writer <- w; parseReadPrompt returns nil
DecWriteNewline ==
    /\ dpc = "write2"
    /\ stdin' = Append(stdin, [by |-> "dec", text |-> NL])
    /\ writer' = releaseWriter(writer, dw)
    /\ dw' = "" /\ dreply' = "" /\ rreq' = Nil /\ dpc' = "read"
    /\ UNCHANGED <<scanVars, parseVars, ready, response, interrupt, quit, statusLog, heapVars, spc,
                   derr, h_r, h_c, rch, pend, execVars, intrVars, chst, chcmd,
                   pipe, stdinPos, sig, used, histVars, endVars, lifeVars>>

\* --------------------------------------------------------------- Combine

\* Combine's goroutine for Output o: for c := range ch { for x := range
\* c.Output() { outCh <- x } }; close(outCh). The reader of outCh takes each
\* value at once, so got is what that reader has received. cpc is "inResp"
\* while the inner loop ranges over the Response ccur; once that Response
\* is closed the goroutine is back at the outer loop's receive.
combineResponse(rec, c) == [rec EXCEPT !.cpc = "inResp", !.ccur = c]
combineEventLost(rec, x) == rec
combineEvent(rec, x) == [rec EXCEPT !.got = Append(@, x)]
combineDone(rec) == [rec EXCEPT !.cpc = "done", !.ccur = Nil]

AtOuterLoop(o) ==
    \/ outs[o].cpc = "waitResp"
    \/ outs[o].cpc = "inResp" /\ resps[outs[o].ccur].closed > 0

\* c := <-ch meets the decoder's h.r.ch <- h.c
CombineRecvResponse(o) ==
    /\ AtOuterLoop(o) /\ dpc = "sendResp" /\ h_r = o
    /\ \E s \in {[DecState EXCEPT !.outs[o] = combineResponse(@, h_c)]} :
          Commit(IF pend # <<>> THEN enterSend(s) ELSE [s EXCEPT !.dpc = "read"])
    /\ UNCHANGED <<scanVars, parseVars, notDec, childVars, seen>>

\* x := <-c.Output() meets the decoder's h.c.send(t); a ReadRequest leaves
\* the decoder in its select on r.Output and r.Err.
CombineRecvEvent(o) ==
    /\ outs[o].cpc = "inResp" /\ dpc = "sendEvent" /\ outs[o].ccur = h_c
    /\ outs' = [outs EXCEPT ![o] = combineEvent(@, Head(pend))]
    /\ pend' = <<>>
    /\ dpc' = IF Head(pend).kind = "ReadRequest" THEN "awaitReply" ELSE "read"
    /\ UNCHANGED <<scanVars, parseVars, procVars, rchs, acks, resps, reqs, spc, derr, h_r, h_c, rch,
                   rreq, dw, dreply, execVars, intrVars, childVars, histVars,
                   endVars, lifeVars>>

\* range ch ends: the Output's channel is closed; close(outCh)
CombineOutputClosed(o) ==
    /\ AtOuterLoop(o) /\ outs[o].closed > 0
    /\ outs' = [outs EXCEPT ![o] = combineDone(@)]
    /\ UNCHANGED <<scanVars, parseVars, procVars, rchs, acks, resps, reqs, spc, decVars, execVars,
                   intrVars, childVars, histVars, endVars, lifeVars>>

\* ------------------------------------------- the reader of a ReadRequest

ReplyTexts == {"1"}
\* values sent on r.Err: an error, or a nil error
ErrValues == {"read abandoned", ""}

HasRequest(o) ==
    \E i \in 1..Len(outs[o].got) :
        /\ outs[o].got[i].kind = "ReadRequest"
        /\ outs[o].got[i].req = rreq

\* case response := <-r.Output
ReplyOutput(o, v) ==
    /\ dpc = "awaitReply" /\ HasRequest(o)
    /\ reqs' = [reqs EXCEPT ![rreq].fromOutput = @ + 1]
    /\ dreply' = v
    /\ dpc' = "awaitWriter"
    /\ UNCHANGED <<scanVars, parseVars, procVars, rchs, acks, outs, resps, spc, derr, h_r, h_c, rch,
                   pend, rreq, dw, execVars, intrVars, childVars, histVars,
                   endVars, lifeVars>>

\* case err = <-r.Err; if err != nil { return err }
replyErrIgnored(s, e) ==
    [s EXCEPT !.reqs[s.rreq].fromErr = @ + 1, !.reqs[s.rreq].errv = e,
              !.rreq = Nil, !.dpc = "read"]
replyErr(s, e) ==
    LET s1 == [s EXCEPT !.reqs[s.rreq].fromErr = @ + 1,
                        !.reqs[s.rreq].errv = e, !.rreq = Nil]
    IN  IF e # "" THEN Return(s1, e) ELSE [s1 EXCEPT !.dpc = "read"]

ReplyErr(o, e) ==
    /\ dpc = "awaitReply" /\ HasRequest(o)
    /\ \E d \in {DecState} : \E s \in {replyErr(d, e)} : Commit(s)
    /\ UNCHANGED <<scanVars, parseVars, notDec, childVars, seen>>

\* --------------------------------------------------------------- Execute

\* The callers are interchangeable: the second takes no offer before the
\* first has taken one.
MayCall(c) ==
    IF c \in Callers THEN c = "c1" \/ epc["c1"] # "idle" ELSE qpc[c] = "exec"

\* rch, ok := <-p.ready; rch <- newOutput(s) (checkRunning passes once Start
\* has returned; the offer channel is fresh, so the send does not block)
ExecTakeOffer(c, cmd) ==
    /\ spc = "started" /\ checkRunning = ""
    /\ epc[c] = "idle" /\ MayCall(c) /\ ready # <<>>
    /\ ready' = Tail(ready)
    /\ erch' = [erch EXCEPT ![c] = Head(ready)]
    /\ ecmd' = [ecmd EXCEPT ![c] = cmd]
    /\ outs' = Append(outs, newOutput(cmd))
    /\ rchs' = [rchs EXCEPT ![Head(ready)].buf = Append(@, Len(outs) + 1)]
    /\ eout' = [eout EXCEPT ![c] = Len(outs) + 1]
    /\ epc' = [epc EXCEPT ![c] = "takeWriter"]
    /\ UNCHANGED <<scanVars, parseVars, response, writer, interrupt, quit, statusLog, acks, resps,
                   reqs, spc, decVars, ew, eret, eerr, intrVars, childVars,
                   histVars, endVars, lifeVars>>

\* rch, ok := <-p.ready with p.ready closed and empty: Execute returns an
\* error.
ExecReadyClosed(c) ==
    /\ spc = "started" /\ checkRunning = ""
    /\ epc[c] = "idle" /\ MayCall(c)
    /\ ready = <<>> /\ chclosed["ready"] > 0
    /\ epc' = [epc EXCEPT ![c] = "failed"]
    /\ eerr' = [eerr EXCEPT ![c] =
                   "magma/proc: Execute() called after process has completed"]
    /\ UNCHANGED <<scanVars, parseVars, procVars, heapVars, spc, decVars, ecmd, erch, eout, ew, eret,
                   intrVars, childVars, histVars, endVars, lifeVars>>

\* A write to the stdin pipe of a child that has ended fails.
writeFails == chst = "dead"

\* w := <-p.writer; w.Write([]byte(s)); when the write fails Execute
\* returns the error and the deferred p.writer <- w puts the writer back.
ExecWriteCommand(c) ==
    /\ epc[c] = "takeWriter" /\ writer # <<>>
    /\ IF writeFails
       THEN /\ epc' = [epc EXCEPT ![c] = "failed"]
            /\ eerr' = [eerr EXCEPT ![c] = "write: broken pipe"]
            /\ UNCHANGED <<scanVars, parseVars, writer, ew, stdin>>
       ELSE /\ ew' = [ew EXCEPT ![c] = Head(writer)]
            /\ writer' = takeWriter(writer)
            /\ stdin' = Append(stdin, [by |-> c, text |-> ecmd[c]])
            /\ epc' = [epc EXCEPT ![c] = "write2"]
            /\ UNCHANGED eerr
    /\ UNCHANGED <<scanVars, parseVars, ready, response, interrupt, quit, statusLog, heapVars, spc,
                   decVars, ecmd, erch, eout, eret, intrVars, chst, chcmd, pipe,
                   stdinPos, sig, used, histVars, endVars, lifeVars>>

\* w := <-p.writer with p.writer closed and empty: w is nil, and w.Write
\* panics.
ExecWriterClosed(c) ==
    /\ epc[c] = "takeWriter" /\ writer = <<>> /\ chclosed["writer"] > 0
    /\ epc' = [epc EXCEPT ![c] = "panic"]
    /\ eerr' = [eerr EXCEPT ![c] = "panic: nil pointer dereference"]
    /\ UNCHANGED <<scanVars, parseVars, procVars, heapVars, spc, decVars, ecmd, erch, eout, ew, eret,
                   intrVars, childVars, histVars, endVars, lifeVars>>

\* The writer as Execute leaves it once both writes are made: it is kept
\* until the call returns.
writerReleasedEarly(w, tok) == Append(w, tok)
writerAfterWrites(w, tok) == w

\* The deferred p.writer <- w of a call that returns err: a send on a
\* closed channel panics.
deferredRelease(c, err) ==
    IF chclosed["writer"] > 0
    THEN /\ epc' = [epc EXCEPT ![c] = "panic"]
         /\ eerr' = [eerr EXCEPT ![c] = "panic: send on closed channel"]
         /\ UNCHANGED writer
    ELSE /\ epc' = [epc EXCEPT ![c] = IF err = "" THEN "done" ELSE "failed"]
         /\ eerr' = [eerr EXCEPT ![c] = err]
         /\ writer' = releaseWriter(writer, ew[c])

\* w.Write([]byte(string(runCommandChar)))
ExecWriteRun(c) ==
    /\ epc[c] = "write2"
    /\ IF writeFails
       THEN /\ deferredRelease(c, "write: broken pipe")
            /\ ew' = [ew EXCEPT ![c] = ""]
            /\ UNCHANGED stdin
       ELSE /\ stdin' = Append(stdin, [by |-> c, text |-> RunChar])
            /\ writer' = writerAfterWrites(writer, ew[c])
            /\ epc' = [epc EXCEPT ![c] = "awaitResp"]
            /\ UNCHANGED <<scanVars, parseVars, ew, eerr>>
    /\ UNCHANGED <<scanVars, parseVars, ready, response, interrupt, quit, statusLog, heapVars, spc,
                   decVars, ecmd, erch, eout, eret, intrVars, chst, chcmd,
                   pipe, stdinPos, sig, used, histVars, endVars, lifeVars>>

\* An Execute that returned its own Output once the command is written,
\* without the receive from p.response.
ExecReturnNoWait(c) ==
    /\ epc[c] = "awaitResp"
    /\ eret' = [eret EXCEPT ![c] = eout[c]]
    /\ deferredRelease(c, "")
    /\ ew' = [ew EXCEPT ![c] = ""]
    /\ outs' = [outs EXCEPT ![eout[c]].cpc = "waitResp"]
    /\ UNCHANGED <<scanVars, parseVars, ready, response, interrupt, quit, statusLog, rchs, acks,
                   resps, reqs, spc, decVars, ecmd, erch, eout, intrVars, childVars,
                   histVars, endVars, lifeVars>>

\* r, ok := <-p.response; return r, nil; the deferred p.writer <- w runs;
\* the caller starts reading the Output (o.Output()).
ExecReturn(c) ==
    /\ epc[c] = "awaitResp" /\ response # <<>>
    /\ eret' = [eret EXCEPT ![c] = Head(response)]
    /\ response' = Tail(response)
    /\ deferredRelease(c, "")
    /\ ew' = [ew EXCEPT ![c] = ""]
    /\ outs' = [outs EXCEPT ![Head(response)].cpc = "waitResp"]
    /\ UNCHANGED <<scanVars, parseVars, ready, interrupt, quit, statusLog, rchs, acks, resps, reqs,
                   spc, decVars, ecmd, erch, eout, intrVars, childVars, histVars,
                   endVars, lifeVars>>

\* r, ok := <-p.response with p.response closed and empty: Execute returns
\* an error, and the deferred p.writer <- w runs.
ExecResponseClosed(c) ==
    /\ epc[c] = "awaitResp" /\ response = <<>> /\ chclosed["response"] > 0
    /\ deferredRelease(c, "magma/proc: Execute() response not returned before process completed")
    /\ ew' = [ew EXCEPT ![c] = ""]
    /\ UNCHANGED <<scanVars, parseVars, ready, response, interrupt, quit, statusLog, heapVars, spc,
                   decVars, ecmd, erch, eout, eret, intrVars, childVars,
                   histVars, endVars, lifeVars>>

\* ---------------------------------------------------- InterruptExecution

\* The states of the child in which it is executing a command.
Busy == {"run", "stmt", "prompt", "read"}

\* Whether the decoder has ended, and whether Wait has closed the channels.
Ended == dpc \in {"done", "panic"}
Closed == chclosed["quit"] > 0

\* c := make(chan struct{}); select { case p.interrupt <- c: default:
\* return error }; p.cmd.Process.Signal(os.Interrupt); return c, nil. A
\* send on a closed channel panics, in a select as anywhere. The signal is
\* delivered to a child that has ended and was not waited for yet as to
\* any other, without an error.
InterruptExecution ==
    /\ spc = "started" /\ checkRunning = "" /\ icalls < MaxIntr
    /\ icalls' = icalls + 1
    /\ IF chclosed["interrupt"] > 0
       THEN /\ last' = Outcome("InterruptExecution", "panic",
                               "send on closed channel", Ended, Closed)
            /\ UNCHANGED <<scanVars, parseVars, acks, interrupt, ich, sig>>
       ELSE IF Len(interrupt) < InterruptCap
       THEN /\ acks' = Append(acks, [kind |-> "interrupt", closed |-> 0,
                                     busy |-> chst \in Busy])
            /\ interrupt' = Append(interrupt, Len(acks) + 1)
            /\ ich' = Len(acks) + 1
            /\ sig' = IF chst = "dead" THEN sig ELSE sig + 1
            /\ last' = Outcome("InterruptExecution", "ok", "", Ended, Closed)
       ELSE /\ last' = Outcome("InterruptExecution", "error",
                               "InterruptExecution() has already been called",
                               Ended, Closed)
            /\ UNCHANGED <<scanVars, parseVars, acks, interrupt, ich, sig>>
    /\ UNCHANGED <<scanVars, parseVars, ready, response, writer, quit, statusLog, rchs, outs, resps,
                   reqs, spc, decVars, execVars, chst, chcmd, pipe, stdin,
                   stdinPos, used, histVars, endVars, chclosed, rpc, rerr, wpc,
                   wcopy, wos, wret, qpc, qch>>

\* ------------------------------------------------------------------ Quit

\* Quit up to its call of Execute: q := make(chan struct{}); select { case
\* p.quit <- q: default: return error }. The call then runs Execute with
\* the quit command, and returns what Execute returns: the error, or q
\* after Discard(o.Output()) has started the reader of the Output.
QuitRegister(c) ==
    /\ spc = "started" /\ checkRunning = ""
    /\ qpc[c] = "idle" /\ (c = "q1" \/ qpc["q1"] # "idle")
    /\ IF chclosed["quit"] > 0
       THEN /\ qpc' = [qpc EXCEPT ![c] = "panic"]
            /\ last' = Outcome("Quit", "panic", "send on closed channel",
                               Ended, Closed)
            /\ UNCHANGED <<scanVars, parseVars, acks, quit, qch>>
       ELSE IF Len(quit) < QuitCap
       THEN /\ acks' = Append(acks, [kind |-> "quit", closed |-> 0,
                                     busy |-> FALSE])
            /\ quit' = Append(quit, Len(acks) + 1)
            /\ qch' = [qch EXCEPT ![c] = Len(acks) + 1]
            /\ qpc' = [qpc EXCEPT ![c] = "exec"]
            /\ UNCHANGED last
       ELSE /\ qpc' = [qpc EXCEPT ![c] = "rejected"]
            /\ last' = Outcome("Quit", "error", "Quit() has already been called",
                               Ended, Closed)
            /\ UNCHANGED <<scanVars, parseVars, acks, quit, qch>>
    /\ UNCHANGED <<scanVars, parseVars, ready, response, writer, interrupt, statusLog, rchs, outs,
                   resps, reqs, spc, decVars, execVars, intrVars, childVars,
                   histVars, endVars, chclosed, rpc, rerr, wpc, wcopy, wos, wret>>

\* What the Quit call c has returned: "" while it has not returned.
QuitResult(c) ==
    CASE qpc[c] = "rejected" -> "error"
      [] qpc[c] = "panic" -> "panic"
      [] qpc[c] = "exec" /\ epc[c] = "done" -> "ok"
      [] qpc[c] = "exec" /\ epc[c] = "failed" -> "error"
      [] qpc[c] = "exec" /\ epc[c] = "panic" -> "panic"
      [] OTHER -> ""

\* ------------------------ Kill, Getpid, and calls on a Process not running

ApiOps == {"Execute", "Quit", "InterruptExecution", "Kill", "Wait", "Getpid"}

\* A call on a Process whose p.cmd is nil: Execute, Quit, InterruptExecution
\* and Kill return the error of checkRunning, Wait returns its own, and
\* Getpid evaluates p.cmd.Process.
notStarted(op) ==
    CASE op = "Getpid" ->
            Outcome(op, "panic", "nil pointer dereference", Ended, Closed)
      [] op = "Wait" ->
            Outcome(op, "error", "magma/proc: not started", Ended, Closed)
      [] OTHER -> Outcome(op, "error", checkRunning, Ended, Closed)

CallNotStarted(op) ==
    /\ spc \in {"new", "failed"}
    /\ last' = notStarted(op)
    /\ UNCHANGED <<scanVars, parseVars, procVars, heapVars, spc, decVars, execVars, intrVars,
                   childVars, histVars, endVars, chclosed, rpc, rerr, wpc,
                   wcopy, wos, wret, qpc, qch>>

\* Kill on a started Process whose child was not waited for yet:
\* p.cmd.Process.Signal(os.Kill) sends the signal, and Kill returns nil.
Kill ==
    /\ spc = "started" /\ checkRunning = "" /\ wpc # "done"
    /\ ksig' = TRUE
    /\ UNCHANGED <<scanVars, parseVars, procVars, heapVars, spc, decVars, execVars, intrVars,
                   childVars, histVars, errch, lifeVars>>

\* ------------------------------------------------------------------ Wait

\* if err != nil && copyError == nil { copyError = err }
firstErrorLast(copyError, err) == IF err # "" THEN err ELSE copyError
firstError(copyError, err) ==
    IF err # "" /\ copyError = "" THEN err ELSE copyError

\* copyError := <-p.errch
WaitFirst ==
    /\ spc = "started" /\ wpc = "idle" /\ errch # <<>>
    /\ wcopy' = Head(errch)
    /\ errch' = Tail(errch)
    /\ wpc' = "second"
    /\ UNCHANGED <<scanVars, parseVars, procVars, heapVars, spc, decVars, execVars, intrVars,
                   childVars, histVars, ksig, chclosed, rpc, rerr, wos, wret,
                   qpc, qch, last>>

\* err := <-p.errch; the writer is taken out of p.writer if it is there;
\* the channels are closed; Wait goes on to p.cmd.Wait().
WaitSecond ==
    /\ wpc = "second" /\ errch # <<>>
    /\ wcopy' = firstError(wcopy, Head(errch))
    /\ errch' = Tail(errch)
    /\ writer' = IF writer # <<>> THEN Tail(writer) ELSE writer
    /\ chclosed' = closeChan(chclosed, ChanNames \ {"startUp"})
    /\ wpc' = "cmdWait"
    /\ UNCHANGED <<scanVars, parseVars, ready, response, interrupt, quit, statusLog, heapVars, spc,
                   decVars, execVars, intrVars, childVars, histVars, ksig, rpc,
                   rerr, wos, wret, qpc, qch, last>>

\* What p.cmd.Wait() may return for a child that has ended.
OsErrors == {"", "exit status 1"}

\* p.cmd.Wait() returns once the child has ended; Wait returns.
WaitReturn(oserr) ==
    /\ wpc = "cmdWait" /\ chst = "dead"
    /\ wos' = oserr
    /\ wret' = firstError(wcopy, oserr)
    /\ wpc' = "done"
    /\ UNCHANGED <<scanVars, parseVars, procVars, heapVars, spc, decVars, execVars, intrVars,
                   childVars, histVars, endVars, chclosed, rpc, rerr, wcopy,
                   qpc, qch, last>>

\* ------------------------------------------------------ the child process

\* The tag lines the child writes when it follows the protocol.
RdyLine == TagLine("RDY", <<"0", "0", "0", "1", "2">>, <<>>)
IrLine == TagLine("IR", <<>>, <<>>)
ResLine == TagLine("RES", <<>>, <<>>)
QuitLine == TagLine("QUIT", <<>>, <<>>)
IntLine == TagLine("INT", <<>>, <<>>)
RunLine == TagLine("RUN", <<"1", "0", "0", "0", "0", "1">>, <<>>)
ErpLine == TagLine("ERP", <<"0", "0", "0", "1">>, <<>>)
OutLine == TagLine("OUT", <<"0">>, <<" ", "x", " ">>)
EiLine == TagLine("EI", <<"0">>, <<"e">>)
PosLine == TagLine("POS", <<"0", "2">>, <<>>)
EneLine == TagLine("ENE", <<>>, <<>>)
PromptLine(f) == TagLine("RD_PR", <<f>>, IF f = "C" THEN <<"q", " ">> ELSE <<"p">>)
InLine == TagLine("RD_IN", <<>>, <<>>)

\* What the child may write next: the line, the state the child is in
\* afterwards, and the budget the line is counted against.
ChildMoves ==
    CASE chst = "boot" ->
            {<<OutLine, "boot", "event">>, <<RdyLine, "idle", "line">>}
      [] chst = "run" /\ chcmd = "quit;" ->
            {<<RunLine, "stmt", "stmt">>, <<QuitLine, "dead", "line">>}
      [] chst = "run" ->
            {<<RunLine, "stmt", "stmt">>, <<ErpLine, "stmt", "stmt">>,
             <<EiLine, "stmt", "event">>, <<ResLine, "run", "event">>,
             <<RdyLine, "idle", "line">>}
      [] chst = "stmt" /\ chcmd = "quit;" ->
            {<<QuitLine, "dead", "line">>}
      [] chst = "stmt" ->
            {<<OutLine, "stmt", "event">>, <<PosLine, "stmt", "event">>,
             <<PromptLine("0"), "prompt", "prompt">>,
             <<RunLine, "stmt", "stmt">>, <<ErpLine, "stmt", "stmt">>,
             <<RdyLine, "idle", "line">>}
      [] chst = "prompt" ->
            {<<PromptLine("C"), "prompt", "prompt">>,
             <<PromptLine("0"), "prompt", "prompt">>,
             <<InLine, "read", "line">>}
      [] chst = "aborted" ->
            {<<RdyLine, "idle", "line">>}
      [] OTHER -> {}

\* The budget a line is counted against is not used up.
Within(cat) ==
    /\ Len(pipe) < PipeCap
    /\ cat # "line" => used.line < MaxLines
    /\ cat = "event" => used.event < MaxEvents
    /\ cat = "stmt" => used.stmt < MaxStmts
    /\ cat = "prompt" => used.prompt < MaxPromptLines

Use(cat) ==
    [used EXCEPT !.line = @ + 1,
                 !.event = IF cat = "event" THEN @ + 1 ELSE @,
                 !.stmt = IF cat = "stmt" THEN @ + 1 ELSE @,
                 !.prompt = IF cat = "prompt" THEN @ + 1 ELSE @]

\* The child writes one of these lines; kinds are the kinds of line it
\* writes of its own accord in this run.
ChildEmit(kinds) ==
    \E m \in ChildMoves :
        /\ m[3] \in kinds \cup {"line"}
        /\ Within(m[3])
        /\ pipe' = Append(pipe, m[1])
        /\ chst' = m[2]
        /\ used' = Use(m[3])
        /\ UNCHANGED <<scanVars, parseVars, procVars, heapVars, spc, decVars, execVars, intrVars,
                       chcmd, stdin, stdinPos, sig, histVars,
                       endVars, lifeVars>>

\* Index of the first unread stdin chunk with the given text, or 0.
NextChunk(text) ==
    LET js == {j \in (stdinPos + 1)..Len(stdin) : stdin[j].text = text}
    IN  IF js = {} THEN 0 ELSE CHOOSE j \in js : \A k \in js : j <= k

\* The idle child reads a command up to the run byte and answers IR.
ChildAccept ==
    /\ chst = "idle" /\ Within("line") /\ NextChunk(RunChar) # 0
    /\ LET j == NextChunk(RunChar)
       IN  /\ chcmd' = IF j = stdinPos + 2 THEN stdin[stdinPos + 1].text
                       ELSE "garbled"
           /\ stdinPos' = j
    /\ pipe' = Append(pipe, IrLine)
    /\ used' = Use("line")
    /\ chst' = "run"
    /\ UNCHANGED <<scanVars, parseVars, procVars, heapVars, spc, decVars, execVars, intrVars, stdin,
                   sig, histVars, endVars, lifeVars>>

\* The child waiting in a read statement takes the reply line.
ChildReadReply ==
    /\ chst = "read" /\ NextChunk(NL) # 0
    /\ stdinPos' = NextChunk(NL)
    /\ chst' = "stmt"
    /\ UNCHANGED <<scanVars, parseVars, procVars, heapVars, spc, decVars, execVars, intrVars, chcmd,
                   pipe, stdin, sig, used, histVars, endVars, lifeVars>>

\* SIGINT reaches the child: it writes INT and abandons what it was running
\* (an idle child stays idle). A child that is writing a prompt or waiting
\* for the reply to a read takes the signal once the read is over.
ChildInterrupt ==
    /\ sig > 0 /\ chst \in {"idle", "run", "stmt"} /\ Within("line")
    /\ sig' = sig - 1
    /\ pipe' = Append(pipe, IntLine)
    /\ used' = Use("line")
    /\ chst' = IF chst = "idle" THEN "idle" ELSE "aborted"
    /\ UNCHANGED <<scanVars, parseVars, procVars, heapVars, spc, decVars, execVars, intrVars, chcmd,
                   stdin, stdinPos, histVars, endVars, lifeVars>>

\* The child ends (it crashes or is killed) and its stdout reaches end of
\* file. The decoder can tell the moment of the exit only by the lines it
\* has read before the end of file, so the exit is taken when the pipe is
\* drained and the decoder is about to read.
ChildExit ==
    /\ chst \notin {"off", "dead"} /\ pipe = <<>> /\ dpc \in {"read", "readPrompt"}
    /\ chst' = "dead"
    /\ UNCHANGED <<scanVars, parseVars, procVars, heapVars, spc, decVars, execVars, intrVars, chcmd,
                   pipe, stdin, stdinPos, sig, used, histVars,
                   endVars, lifeVars>>

\* SIGKILL ends the child.
ChildKilled ==
    /\ ksig /\ chst \notin {"off", "dead"}
    /\ chst' = "dead"
    /\ UNCHANGED <<scanVars, parseVars, procVars, heapVars, spc, decVars, execVars, intrVars, chcmd,
                   pipe, stdin, stdinPos, sig, used, histVars, endVars, lifeVars>>

\* What s.Err() may be when the scan stops on a line it cannot hold.
ScanErrors == {"bufio.Scanner: token too long"}

\* The line-reader goroutine leaves its loop: close(ch); p.errch <- s.Err().
\* Once the decoder goroutine has closed stop, the lines still to come are
\* dropped.
readerEnds(e) ==
    /\ rpc = "scan" /\ (pipe = <<>> \/ dpc \in {"done", "panic"})
    /\ rpc' = "done" /\ rerr' = e
    /\ errch' = Append(errch, e)
    /\ pipe' = <<>>
    /\ UNCHANGED <<scanVars, parseVars, procVars, heapVars, spc, decVars, execVars, intrVars, chst,
                   chcmd, stdin, stdinPos, sig, used, histVars, ksig, chclosed,
                   wpc, wcopy, wos, wret, qpc, qch, last>>

\* The scan reaches the end of the stdout of a child that has ended, or of
\* one that was not launched.
ReaderEOF == (chst = "dead" \/ spc = "failed") /\ readerEnds("")

\* The scan stops with an error on a line of a running child.
ReaderFail ==
    \E e \in ScanErrors : chst \notin {"off", "dead"} /\ readerEnds(e)

\* ------------------------------------- a child that follows no protocol

\* Lines of every shape the decoder tells apart: well-formed tag lines,
\* tag lines with missing fields, and a line that carries no tag.
BadRdyLine == TagLine("RDY", <<>>, <<>>)
BadErpLine == TagLine("ERP", <<"0">>, <<>>)
BadPromptLine == TagLine("RD_PR", <<>>, <<"p">>)
PlainLine == RawLine(FALSE, <<>>, <<"x">>)

AnyLines ==
    {RdyLine, IrLine, ResLine, RunLine, ErpLine, OutLine, EiLine, EneLine,
     QuitLine, IntLine, PromptLine("0"), InLine, BadRdyLine, BadErpLine,
     BadPromptLine, PlainLine}

\* The child writes any line, whatever it has been sent.
ChildSay ==
    \E l \in AnyLines :
        /\ chst \notin {"off", "dead"} /\ Len(pipe) < PipeCap
        /\ used.line < MaxAnyLines
        /\ pipe' = Append(pipe, l)
        /\ used' = [used EXCEPT !.line = @ + 1]
        /\ UNCHANGED <<scanVars, parseVars, procVars, heapVars, spc, decVars, execVars, intrVars,
                       chst, chcmd, stdin, stdinPos, sig, histVars,
                       endVars, lifeVars>>

\* ------------------------------------------------------------------ Spec

Outs == 1..Len(outs)

\* Steps of the library and of the tasks that use it, read statements
\* apart.
Library ==
    \/ StartMake
    \/ StartOK
    \/ StartReturn
    \/ \E c \in Callers : \E cmd \in CmdsOf(c) : ExecTakeOffer(c, cmd)
    \/ \E c \in Callers : ExecWriteCommand(c)
    \/ \E c \in Callers : ExecWriteRun(c)
    \/ \E c \in Callers : ExecReturn(c)
    \/ \E o \in Outs : CombineRecvEvent(o)
    \/ \E o \in Outs : CombineOutputClosed(o)
    \/ \E o \in Outs : CombineRecvResponse(o)
    \/ DecBoot
    \/ DecodeLine

\* The decoder in a read statement, and the reader that answers it.
Reading ==
    \/ DecodePromptLine
    \/ DecWriteReply
    \/ DecWriteNewline
    \/ \E o \in Outs, v \in ReplyTexts : ReplyOutput(o, v)
    \/ \E o \in Outs, e \in ErrValues : ReplyErr(o, e)

\* The child ends, by itself or killed, the line reader finds the end of
\* its output and the decoder finds the line reader gone.
Ending ==
    \/ ChildExit
    \/ ChildKilled
    \/ ReaderEOF
    \/ DecodeEOF

\* The library driven by a child that follows the protocol and may end at
\* any moment.
Next ==
    \/ Library
    \/ Reading
    \/ ChildEmit({"event", "stmt", "prompt"})
    \/ ChildAccept
    \/ ChildReadReply
    \/ Ending

Spec == Init /\ [][Next]_vars

\* The library driven by a child that writes any sequence of lines.
NextAny ==
    \/ Library
    \/ Reading
    \/ DecUnblock
    \/ ChildSay
    \/ Ending

SpecAny == Init /\ [][NextAny]_vars

\* The library with InterruptExecution, driven by a child that follows the
\* protocol, runs no read statement and does not end.
NextLive ==
    \/ Library
    \/ InterruptExecution
    \/ ChildEmit({"event", "stmt"})
    \/ ChildAccept
    \/ ChildInterrupt

\* Every task that can take a step eventually takes one: the decoder, the
\* consumers of the Outputs, the Execute calls and the child. Only
\* InterruptExecution need not be called.
Progress ==
    \/ ChildEmit({"event", "stmt"})
    \/ ChildAccept
    \/ ChildInterrupt
    \/ Library

SpecLive == Init /\ [][NextLive]_vars /\ WF_vars(Progress)

\* The task that calls Execute in a whole session.
User == "c1"

\* Execute, with the ways it ends when the channel it waits on was closed.
Executes(c, cmds) ==
    \/ \E cmd \in cmds : ExecTakeOffer(c, cmd)
    \/ ExecReadyClosed(c)
    \/ ExecWriteCommand(c)
    \/ ExecWriterClosed(c)
    \/ ExecWriteRun(c)
    \/ ExecReturn(c)
    \/ ExecResponseClosed(c)

\* The calls that return at once.
Calls ==
    \/ \E op \in ApiOps : CallNotStarted(op)
    \/ \E c \in Quitters : QuitRegister(c)
    \/ InterruptExecution
    \/ Kill

Waiting ==
    \/ WaitFirst
    \/ WaitSecond
    \/ \E e \in OsErrors : WaitReturn(e)

\* The whole life of a Process, from before Start until Wait has returned,
\* with a launch that may fail, a child that follows the protocol and runs
\* statements without output, and a line reader that may fail.
NextSession ==
    \/ StartMake
    \/ StartOK
    \/ StartFail
    \/ StartReturn
    \/ DecSkip
    \/ DecBoot
    \/ DecodeLine
    \/ \E o \in Outs : CombineRecvResponse(o)
    \/ \E o \in Outs : CombineOutputClosed(o)
    \/ Executes(User, CmdsOf(User))
    \/ \E c \in Quitters : Executes(c, {QuitCmd})
    \/ Calls
    \/ Waiting
    \/ ChildEmit({"stmt"})
    \/ ChildAccept
    \/ ChildInterrupt
    \/ Ending
    \/ ReaderFail

SpecSession == Init /\ [][NextSession]_vars

\* ------------------------------------------------- package parse: text

\* A line of text is a sequence of tokens. A token is one character, or
\* one of the literals the parsers look for ("In eval expression, ",
\* "Located in", ": ", " at ", ...), which stands for its characters.

HasPrefix(s, tok) == s # <<>> /\ Head(s) = tok
HasSuffix(s, tok) == s # <<>> /\ Last(s) = tok
TrimPrefix(s, tok) == IF HasPrefix(s, tok) THEN Tail(s) ELSE s
TrimSuffix(s, tok) == IF HasSuffix(s, tok) THEN Front(s) ELSE s

\* strings.Index and strings.LastIndex, counted from 1; 0 when absent.
Index(s, tok) ==
    IF \E i \in 1..Len(s) : s[i] = tok
    THEN CHOOSE i \in 1..Len(s) : s[i] = tok /\ \A j \in 1..(i - 1) : s[j] # tok
    ELSE 0
LastIndex(s, tok) ==
    IF \E i \in 1..Len(s) : s[i] = tok
    THEN CHOOSE i \in 1..Len(s) :
            s[i] = tok /\ \A j \in (i + 1)..Len(s) : s[j] # tok
    ELSE 0

\* strings.SplitN(s, tok, 2)
SplitN2(s, tok) ==
    IF Index(s, tok) = 0 THEN <<s>>
    ELSE <<SubSeq(s, 1, Index(s, tok) - 1),
           SubSeq(s, Index(s, tok) + 1, Len(s))>>

\* strings.Split(s, tok)
RECURSIVE Split(_, _)
Split(s, tok) ==
    IF Index(s, tok) = 0 THEN <<s>>
    ELSE <<SubSeq(s, 1, Index(s, tok) - 1)>>
            \o Split(SubSeq(s, Index(s, tok) + 1, Len(s)), tok)

NonEmpty(f) == f # <<>>
IsComma(ch) == ch = ","

\* strings.Fields(s): the maximal pieces without white space.
RECURSIVE SplitSpaces(_)
SplitSpaces(s) ==
    IF \E i \in 1..Len(s) : IsSpace(s[i])
    THEN LET i == CHOOSE k \in 1..Len(s) :
                     IsSpace(s[k]) /\ \A j \in 1..(k - 1) : ~IsSpace(s[j])
         IN  <<SubSeq(s, 1, i - 1)>> \o SplitSpaces(SubSeq(s, i + 1, Len(s)))
    ELSE <<s>>
Fields(s) == SelectSeq(SplitSpaces(s), NonEmpty)

\* strings.FieldsFunc(s, matchCommaRune): the maximal pieces without a
\* comma.
FieldsComma(s) == SelectSeq(Split(s, ","), NonEmpty)

\* strconv.Atoi on text: an optional sign and one or more digits.
Digits == {"0", "1", "2", "3", "4", "5", "6", "7", "8", "9"}
DigitValue(d) == CHOOSE n \in 0..9 : <<"0", "1", "2", "3", "4", "5", "6", "7", "8", "9">>[n + 1] = d
Unsigned(s) == s # <<>> /\ \A i \in 1..Len(s) : s[i] \in Digits
IsNumber(s) ==
    IF s # <<>> /\ Head(s) \in {"+", "-"} THEN Unsigned(Tail(s)) ELSE Unsigned(s)
RECURSIVE Magnitude(_)
Magnitude(s) ==
    IF s = <<>> THEN 0 ELSE 10 * Magnitude(Front(s)) + DigitValue(Last(s))
Number(s) ==
    IF Head(s) = "-" THEN 0 - Magnitude(Tail(s))
    ELSE IF Head(s) = "+" THEN Magnitude(Tail(s))
    ELSE Magnitude(s)

AtoiError == "strconv.Atoi: invalid syntax"

\* ------------------------------------------ package parse: the parsers

\* What a parser sends on its output channel.
ErrorValue(text) == [kind |-> "error", text |-> text]

consumeLine(p) == [p EXCEPT !.processed = TRUE]
emit(p, v) == [p EXCEPT !.emit = Append(@, v)]
goto(p, fn) == [p EXCEPT !.fn = fn]
\* A state function returns nil: the loop of run() ends.
finish(p) == goto(p, "end")
parserPanic(p, msg) == [p EXCEPT !.fn = "panic", !.err = msg]

\* A state function is applied to the parser with the result ok of its
\* fetchNextLine(); it runs up to the next fetchNextLine() that has to
\* receive a line, and leaves in fn the state function to go on with.

\* ------------------------------------------------------- TracebackParser

NoIndex == -1
NoLocation == [File |-> <<>>, Row |-> 0, Glue |-> <<>>]
TracebackZero(name, index) ==
    [kind |-> "Traceback", Index |-> 0, Current |-> FALSE, Name |-> name,
     Params |-> <<>>, Location |-> NoLocation]
Traceback(name, index) ==
    [kind |-> "Traceback", Index |-> index, Current |-> FALSE, Name |-> name,
     Params |-> <<>>, Location |-> NoLocation]

parseTracebackError(p) ==
    IF p.err = ""
    THEN parserPanic(p, "parser error triggered but error value not set")
    ELSE finish(emit(p, ErrorValue(p.err)))

parseTracebackLocation(p, ok) ==
    IF ~ok THEN parserPanic(p, "should not get here")
    ELSE IF ~HasPrefix(p.line, ")") THEN consumeLine(p)
    ELSE LET q == consumeLine(p)
             locationLine == SplitN2(p.line, " at ")
             index == LastIndex(locationLine[2], ":")
             row == SubSeq(locationLine[2], index + 1, Len(locationLine[2]))
             r == [q EXCEPT !.cur.Location =
                      [File |-> SubSeq(locationLine[2], 1, index - 1),
                       Row |-> Number(row), Glue |-> <<>>]]
         IN  IF Len(locationLine) # 2
             THEN goto(emit(q, q.cur), "parseTraceback")
             ELSE IF index = 0
             THEN parseTracebackError([q EXCEPT !.err = "expected ':'"])
             ELSE IF ~IsNumber(row)
             THEN parseTracebackError([q EXCEPT !.err = AtoiError])
             ELSE goto(emit(r, r.cur), "parseTraceback")

parseTracebackParam(p, ok) ==
    IF ~ok THEN parserPanic(p, "should not get here")
    ELSE IF HasPrefix(p.line, ")")
    THEN parseTracebackLocation(goto(p, "parseTracebackLocation"), TRUE)
    ELSE LET fields == SplitN2(p.line, ": ")
         IN  IF Len(fields) # 2
             THEN parseTracebackError([p EXCEPT !.err = "expected a split of 2"])
             ELSE consumeLine([p EXCEPT !.cur.Params =
                     Append(@, [Name |-> fields[1],
                                Value |-> TrimSuffix(fields[2], ",")])])

parseTraceback(p, ok) ==
    IF ~ok THEN finish(p)
    ELSE IF ~HasSuffix(p.line, "(") THEN consumeLine(p)
    ELSE LET name == Front(p.line)
             q == [p EXCEPT !.cur = Traceback(name, NoIndex)]
             levelNameFields == Fields(Tail(name))
         IN  IF ~HasPrefix(name, "#")
             THEN goto(consumeLine(q), "parseTracebackParam")
             ELSE IF Len(levelNameFields) # 2
             THEN parseTracebackError(q)
             ELSE IF ~IsNumber(levelNameFields[1])
             THEN parseTracebackError([q EXCEPT !.err = AtoiError])
             ELSE goto(consumeLine(
                     [q EXCEPT !.cur.Index = Number(levelNameFields[1]),
                               !.cur.Name = TrimPrefix(levelNameFields[2], "*"),
                               !.cur.Current = HasPrefix(levelNameFields[2], "*")]),
                     "parseTracebackParam")

\* --------------------------------------------------- ErrorPositionParser

\* A literal that ends in a space is a proper prefix only: the line was
\* trimmed, so it cannot end with this literal.
HasPrefixSp(s, tok) == Len(s) > 1 /\ Head(s) = tok

IndexPanic == "panic: index out of range"
SlicePanic == "panic: slice bounds out of range"
Panics == {IndexPanic, SlicePanic}

\* extractRowColumnFromFieldsSplit: `[at] line x` and `column y`.
extractRowColumnFromFieldsSplit(fields) ==
    IF Len(fields) # 2
    THEN [err |-> "expect 2 elements in expansion of line/column location data",
          row |-> 0, col |-> 0]
    ELSE LET lineSplit == Fields(fields[1])
             colSplit == Fields(fields[2])
         IN  IF lineSplit = <<>> THEN [err |-> IndexPanic, row |-> 0, col |-> 0]
             ELSE IF ~IsNumber(Last(lineSplit))
             THEN [err |-> AtoiError, row |-> 0, col |-> 0]
             ELSE IF Len(colSplit) < 2
             THEN [err |-> IndexPanic, row |-> 0, col |-> 0]
             ELSE IF ~IsNumber(colSplit[2])
             THEN [err |-> AtoiError, row |-> Number(Last(lineSplit)), col |-> 0]
             ELSE [err |-> "", row |-> Number(Last(lineSplit)),
                   col |-> Number(colSplit[2])]

\* extractRowColumnFromString: `[at] line x, column y`.
extractRowColumnFromString(input) ==
    extractRowColumnFromFieldsSplit(FieldsComma(input))

\* extractFileRowColumn: `<file>, [at] line <row>, column <column>`. The
\* test of the number of pieces sets err and goes on.
extractFileRowColumn(input) ==
    LET commaSplit == FieldsComma(input)
        rc == extractRowColumnFromFieldsSplit(
                 SubSeq(commaSplit, Len(commaSplit) - 1, Len(commaSplit)))
    IN  IF commaSplit = <<>>
        THEN [err |-> IndexPanic, file |-> <<>>, row |-> 0, col |-> 0]
        ELSE IF Len(commaSplit) < 2
        THEN [err |-> SlicePanic, file |-> <<>>, row |-> 0, col |-> 0]
        ELSE [err |-> rc.err, file |-> commaSplit[1], row |-> rc.row,
              col |-> rc.col]

\* A node that has Eval set whatever it was made from.
ErrorPositionEval(file, eval, row, col) ==
    [File |-> file, Eval |-> TRUE, Row |-> row, Column |-> col,
     SourceFragment |-> <<>>, LocatedIn |-> Nil]
ErrorPosition(file, eval, row, col) ==
    [File |-> file, Eval |-> eval, Row |-> row, Column |-> col,
     SourceFragment |-> <<>>, LocatedIn |-> Nil]

\* The loop of run() has ended: the current record is sent unless there
\* is none or an error was found.
epoFinish(p) ==
    IF p.cur # Nil /\ p.err = ""
    THEN finish(emit(p, [kind |-> "ErrorPosition", root |-> p.cur]))
    ELSE finish(p)

parseErrorPositionError(p) ==
    IF p.err = ""
    THEN parserPanic(p, "parser error triggered but error value not set")
    ELSE epoFinish(emit(p, ErrorValue(p.err)))

\* The result of an extract function is taken: a panic, an error, or the
\* parser with the node made from it.
epoTake(p, r, q) ==
    IF r.err \in Panics THEN parserPanic(p, r.err)
    ELSE IF r.err # "" THEN parseErrorPositionError([p EXCEPT !.err = r.err])
    ELSE q

\* file[1 : len(file)-1]
Unquote(file) == SubSeq(file, 2, Len(file) - 1)

parseTopLevel(p, ok) ==
    LET id == Len(p.heap) + 1
        rc == extractRowColumnFromString(Front(Tail(p.line)))
        frc == extractFileRowColumn(Tail(p.line))
        top(n) == goto(consumeLine([p EXCEPT !.heap = Append(@, n), !.cur = id]),
                       "parseSourceFragment")
    IN  IF ~ok THEN epoFinish(p)
        ELSE IF HasPrefixSp(p.line, "In eval expression, ")
        THEN epoTake(p, rc, top(ErrorPosition(<<>>, TRUE, rc.row, rc.col)))
        ELSE IF HasPrefixSp(p.line, "In file ")
        THEN epoTake(p, frc,
                 IF Len(frc.file) < 2 THEN parserPanic(p, SlicePanic)
                 ELSE top(ErrorPosition(Unquote(frc.file), FALSE, frc.row, frc.col)))
        ELSE epoFinish(p)

parseSourceFragment(p, ok) ==
    IF ok /\ HasPrefixSp(p.line, ">> ")
    THEN goto(consumeLine(
            [p EXCEPT !.heap[IF p.sub # Nil THEN p.sub ELSE p.cur].SourceFragment =
                         Tail(p.line)]),
            "parseLocatedInExpression")
    ELSE parseErrorPositionError(
            [p EXCEPT !.err = "expected source fragment line"])

parseLocatedInExpression(p, ok) ==
    LET line == Tail(p.line)
        id == Len(p.heap) + 1
        rc == extractRowColumnFromString(Front(Tail(line)))
        frc == extractFileRowColumn(Front(Tail(line)))
        link(s) ==
            LET h == Append(p.heap, s)
            IN  goto(consumeLine(
                    [p EXCEPT !.heap =
                                 IF h[p.cur].LocatedIn = Nil
                                 THEN [h EXCEPT ![p.cur].LocatedIn = id]
                                 ELSE [h EXCEPT ![p.sub].LocatedIn = id],
                              !.sub = id]),
                    "parseSourceFragment")
    IN  IF ~(ok /\ HasPrefix(p.line, "Located in")) THEN epoFinish(p)
        ELSE IF HasPrefixSp(line, " enclosing eval expression, at ")
        THEN epoTake(p, rc, link(ErrorPosition(<<>>, TRUE, rc.row, rc.col)))
        ELSE IF HasPrefixSp(line, " file ")
        THEN epoTake(p, frc,
                 IF Len(frc.file) < 2 THEN parserPanic(p, SlicePanic)
                 ELSE link(ErrorPosition(Unquote(frc.file), FALSE, frc.row, frc.col)))
        ELSE IF line = <<":">> THEN link(ErrorPosition(<<>>, FALSE, 0, 0))
        ELSE parseErrorPositionError(
                [p EXCEPT !.err = "Located in line with unrecognised suffix"])

\* ------------------------------------------------------- SignatureParser

NoSignatureLocation == [File |-> <<>>, Row |-> 0, Glue |-> <<>>, Column |-> 0]
\* &Signature{}
Signature ==
    [kind |-> "Signature", Location |-> NoSignatureLocation,
     Intrinsic |-> <<>>, Comment |-> <<>>, Params |-> <<>>, Returns |-> <<>>,
     OptionalParams |-> <<>>]

spin(p) == goto(p, "spin")

parseSignatureError(p) ==
    IF p.err = ""
    THEN parserPanic(p, "parser error triggered but error value not set")
    ELSE finish(emit(p, ErrorValue(p.err)))

\* parseComment: the comment ends with an empty line; the signature is
\* sent and a new one begun.
parseCommentSilent(p, ok) ==
    IF ~ok THEN finish(p)
    ELSE IF p.line = <<>>
    THEN goto([consumeLine(p) EXCEPT !.cur = Signature], "parseSignature")
    ELSE consumeLine(p)
parseComment(p, ok) ==
    IF ~ok THEN finish(p)
    ELSE IF p.line = <<>>
    THEN goto([emit(consumeLine(p), p.cur) EXCEPT !.cur = Signature],
              "parseSignature")
    ELSE consumeLine([p EXCEPT !.cur.Comment =
                         IF @ = <<>> THEN p.line ELSE @ \o <<" ">> \o p.line])

\* The optional parameters gathered, split at "," and each at ": ".
optionalParamsOf(text) ==
    IF text = <<>> THEN <<>>
    ELSE [i \in 1..Len(Split(text, ",")) |->
             LET paramTypeNameArr == Split(Split(text, ",")[i], ": ")
             IN  IF Len(paramTypeNameArr) = 2
                 THEN [Name |-> paramTypeNameArr[1], Type |-> paramTypeNameArr[2]]
                 ELSE [Name |-> paramTypeNameArr[1], Type |-> <<>>]]

\* parseOptionalParams after the "]" line: p.fetchNextLine();
\* p.consumeLine(); the line has to be empty. The result of the fetch is
\* not looked at: at the end of the input p.line is still the "]" line.
parseOptionalParamsEnd(p, ok) ==
    IF p.line # <<>>
    THEN parseSignatureError(
            [consumeLine(p) EXCEPT !.err =
                "expected an empty line to follow optional params"])
    ELSE goto([consumeLine(p) EXCEPT !.cur.OptionalParams = optionalParamsOf(p.acc),
                                     !.acc = <<>>],
              "parseComment")

\* parseOptionalParams, the loop up to the "]" line.
parseOptionalParamsList(p, ok) ==
    IF ~ok THEN parserPanic(p, "should not get here")
    ELSE IF HasPrefix(p.line, "]")
    THEN goto(consumeLine(p), "parseOptionalParamsEnd")
    ELSE consumeLine([p EXCEPT !.acc = @ \o p.line])

\* parseOptionalParams, entered with the "[" line not yet consumed.
parseOptionalParams(p) ==
    IF HasPrefix(p.line, "[")
    THEN goto(consumeLine([p EXCEPT !.acc = <<>>]), "parseOptionalParamsList")
    ELSE parseComment(goto(p, "parseComment"), TRUE)

\* The parameters between the parentheses, for parameters written
\* name::type or type and separated by ", ".
paramsOf(text) ==
    IF text = <<>> THEN <<>>
    ELSE [i \in 1..Len(Split(text, ", ")) |->
             LET a == Split(Split(text, ", ")[i], "::")
             IN  IF Len(a) = 2 THEN [Name |-> a[1], Type |-> a[2]]
                 ELSE [Name |-> <<>>, Type |-> a[1]]]

\* parseParams after its loop: l holds the statement. Without a ")" the
\* slice l[1:index] is out of range; "->" is skipped together with the
\* character that follows it.
parseParamsEnd(p, l) ==
    LET index == Index(l, ")")
        arrow == Index(l, "->")
        q == IF index = 2 THEN p
             ELSE [p EXCEPT !.cur.Params = paramsOf(SubSeq(l, 2, index - 1)),
                            !.cur.Returns =
                               IF arrow = 0 THEN @
                               ELSE Split(SubSeq(l, arrow + 2, Len(l)), ", ")]
        r == [q EXCEPT !.acc = <<>>]
    IN  IF index = 0 THEN parserPanic(p, SlicePanic)
        ELSE IF index # 2 /\ arrow # 0 /\ arrow + 1 > Len(l)
        THEN parserPanic(p, SlicePanic)
        ELSE IF p.line = <<>> THEN goto(consumeLine(r), "parseComment")
        ELSE IF p.line = <<"[">> THEN parseOptionalParams(r)
        ELSE finish(r)

\* parseParams, its loop: p.fetchNextLine() without a look at its result,
\* so that at the end of the input the line before is added again and
\* again.
parseParamsLine(p, ok) ==
    IF p.line = <<>> \/ p.line = <<"[">> THEN parseParamsEnd(p, p.acc)
    ELSE IF ~ok THEN spin(p)
    ELSE consumeLine([p EXCEPT !.acc = @ \o p.line])

\* parseParams, entered with the line that starts with "(" not consumed.
parseParams(p) ==
    goto(consumeLine([p EXCEPT !.acc = p.line]), "parseParamsLine")

\* parseSignature, the loop that gathers the name up to a "(": again
\* p.fetchNextLine() without a look at its result.
parseSignatureName(p, ok) ==
    LET index == Index(p.line, "(")
    IN  IF index # 0
        THEN parseParams([p EXCEPT !.cur.Intrinsic = p.acc \o SubSeq(p.line, 1, index - 1),
                                   !.line = SubSeq(p.line, index, Len(p.line))])
        ELSE IF ~ok THEN spin(p)
        ELSE goto(consumeLine([p EXCEPT !.acc = @ \o p.line]),
                  "parseSignatureName")

parseSignature(p, ok) ==
    LET fields == FieldsComma(Front(Tail(p.line)))
        rc == extractRowColumnFromFieldsSplit(SubSeq(fields, 2, Len(fields)))
    IN  IF ~ok THEN finish(p)
        ELSE IF p.line = <<>> \/ p.line = <<"Signatures:">> THEN consumeLine(p)
        ELSE IF HasPrefixSp(p.line, "Defined in file: ")
        THEN IF Len(fields) < 3
             THEN parseSignatureError(
                     [p EXCEPT !.err = "expected at least 3 chunks from comma split"])
             ELSE IF rc.err \in Panics THEN parserPanic(p, rc.err)
             ELSE IF rc.err # "" THEN parseSignatureError([p EXCEPT !.err = rc.err])
             ELSE consumeLine([p EXCEPT !.cur.Location =
                     [File |-> fields[1], Row |-> rc.row, Glue |-> <<>>,
                      Column |-> rc.col]])
        ELSE IF HasPrefixSp(p.line, "Defined in glue: ")
        THEN consumeLine([p EXCEPT !.cur.Location =
                [File |-> <<>>, Row |-> 0, Glue |-> Front(Tail(p.line)),
                 Column |-> 0]])
        ELSE IF p.intrinsic # <<>>
        THEN IF HasPrefix(p.line, "(")
             THEN parseParams([p EXCEPT !.cur.Intrinsic = p.intrinsic])
             ELSE consumeLine(p)
        ELSE parseSignatureName([p EXCEPT !.acc = <<>>], TRUE)

parseSignatureListHeader(p, ok) ==
    LET named == HasPrefix(p.line, "Intrinsic '")
        line == Tail(p.line)
        q == IF named THEN consumeLine([p EXCEPT !.intrinsic = Front(line)]) ELSE p
        r == IF HasPrefixSp(q.line, "Signatures matching ")
             THEN consumeLine([q EXCEPT !.intrinsic = <<>>])
             ELSE q
    IN  IF ~ok
        THEN parseSignatureError(
                [p EXCEPT !.err = "expected signature list header"])
        ELSE IF named /\ p.intrinsic # <<>>
        THEN parseSignatureError(
                [p EXCEPT !.err = "new listing, but already have intrisic set"])
        ELSE IF named /\ line = <<>> THEN parserPanic(p, IndexPanic)
        ELSE IF named /\ Last(line) # "'"
        THEN parseSignatureError([p EXCEPT !.err = "expected Intrinsic 'Name'"])
        ELSE IF r.processed THEN goto(r, "parseSignature")
        ELSE parseSignature(goto(r, "parseSignature"), TRUE)

\* ------------------------------------------- package parse: the goroutines

\* The state function fn of the parser p, applied with the result ok of
\* its fetchNextLine().
stateFn(p, ok) ==
    CASE p.fn = "parseTraceback" -> parseTraceback(p, ok)
      [] p.fn = "parseTracebackParam" -> parseTracebackParam(p, ok)
      [] p.fn = "parseTracebackLocation" -> parseTracebackLocation(p, ok)
      [] p.fn = "parseTopLevel" -> parseTopLevel(p, ok)
      [] p.fn = "parseSourceFragment" -> parseSourceFragment(p, ok)
      [] p.fn = "parseLocatedInExpression" -> parseLocatedInExpression(p, ok)
      [] p.fn = "parseSignatureListHeader" -> parseSignatureListHeader(p, ok)
      [] p.fn = "parseSignature" -> parseSignature(p, ok)
      [] p.fn = "parseSignatureName" -> parseSignatureName(p, ok)
      [] p.fn = "parseParamsLine" -> parseParamsLine(p, ok)
      [] p.fn = "parseOptionalParamsList" -> parseOptionalParamsList(p, ok)
      [] p.fn = "parseOptionalParamsEnd" -> parseOptionalParamsEnd(p, ok)
      [] p.fn = "parseComment" -> parseComment(p, ok)

\* The state functions in which a parser waits for a line.
Fetching ==
    {"parseTraceback", "parseTracebackParam", "parseTracebackLocation",
     "parseTopLevel", "parseSourceFragment", "parseLocatedInExpression",
     "parseSignatureListHeader", "parseSignature", "parseSignatureName",
     "parseParamsLine", "parseOptionalParamsList", "parseOptionalParamsEnd",
     "parseComment"}

\* newLineConsumer(source) on a new channel, and the new output channel
\* that every start makes.
newLineConsumer(p) ==
    [p EXCEPT !.line = <<>>, !.processed = TRUE, !.inq = <<>>,
              !.inClosed = FALSE, !.emit = <<>>, !.outClosed = FALSE]

\* start: the SignatureParser and the TracebackParser begin with a new
\* current record, the ErrorPositionParser keeps what it has; no start
\* resets err, and the SignatureParser keeps its intrinsic.
start(p) ==
    CASE p.kind = "sig" ->
            [newLineConsumer(p) EXCEPT !.cur = Signature,
                                       !.fn = "parseSignatureListHeader"]
      [] p.kind = "tb" ->
            [newLineConsumer(p) EXCEPT !.cur = Traceback(<<>>, 0),
                                       !.fn = "parseTraceback"]
      [] p.kind = "epo" ->
            [newLineConsumer(p) EXCEPT !.fn = "parseTopLevel"]

\* A panic in any goroutine ends the program.
Alive == \A i \in Parsers : prs[i].fn # "panic"

\* fetchNextLine() receives the line x: it is trimmed and the state
\* function goes on with it.
ParserLine(i) ==
    /\ Alive
    /\ prs[i].fn \in Fetching /\ prs[i].emit = <<>> /\ prs[i].inq # <<>>
    /\ prs' = [prs EXCEPT ![i] =
                  stateFn([prs[i] EXCEPT !.line = TrimSpace(Head(prs[i].inq)),
                                         !.processed = FALSE, !.inq = <<>>],
                          TRUE)]

\* fetchNextLine() finds its source closed.
ParserEOF(i) ==
    /\ Alive
    /\ prs[i].fn \in Fetching /\ prs[i].emit = <<>>
    /\ prs[i].inq = <<>> /\ prs[i].inClosed
    /\ prs' = [prs EXCEPT ![i] = stateFn(prs[i], FALSE)]

\* run() after its loop: close(p.output), once every value it sent was
\* received.
ParserClose(i) ==
    /\ Alive
    /\ prs[i].fn = "end" /\ prs[i].emit = <<>>
    /\ prs' = [prs EXCEPT ![i].fn = "closed", ![i].outClosed = TRUE]

ParserStep(i) ==
    /\ ParserLine(i) \/ ParserEOF(i) \/ ParserClose(i)
    /\ UNCHANGED <<sessionVars, pgot, plines, pdoc, taggedVars>>

\* ------------------------------------------ package parse: testParser

\* The input of testParser(p, in, v, t) is made of items: each item is a
\* piece of Magma output in the form the tests give it, or a piece that
\* is not of that form. MaxItems bounds the number of items of an input.
MaxItems == 3

RECURSIVE Numeral(_)
Numeral(n) ==
    IF n < 10 THEN <<<<"0", "1", "2", "3", "4", "5", "6", "7", "8", "9">>[n + 1]>>
    ELSE Numeral(n \div 10) \o Numeral(n % 10)

Blank == [type |-> "blank", lines |-> <<<<>>>>]
Bad(lines) == [type |-> "bad", lines |-> lines]

\* A traceback frame: `[#N ][*]name(`, its parameters `    name: value[,]`
\* and `)[ at file:row]`.
ParamX == [Name |-> <<"x">>, Value |-> <<"0">>]
ParamY == [Name |-> <<"y">>, Value |-> <<"a", " ", "b">>]
TbFrames ==
    {[type |-> "frame", index |-> ix, star |-> st, name |-> <<"T">>,
      params |-> ps, at |-> at] :
        ix \in {NoIndex, 1}, st \in BOOLEAN,
        ps \in {<<>>, <<ParamX, ParamY>>},
        at \in {<<>>, <<[File |-> <<"<", "m", ">">>, Row |-> 12]>>}}
FrameHeader(it) ==
    (IF it.index # NoIndex THEN <<"#">> \o Numeral(it.index) \o <<" ">> ELSE <<>>)
        \o (IF it.star THEN <<"*">> ELSE <<>>) \o it.name \o <<"(">>
FrameParam(it, i) ==
    <<" ", " ">> \o it.params[i].Name \o <<": ">> \o it.params[i].Value
        \o (IF i < Len(it.params) THEN <<",">> ELSE <<>>)
FrameEnd(it) ==
    <<")">> \o (IF it.at = <<>> THEN <<>>
                ELSE <<" at ">> \o it.at[1].File \o <<":">> \o Numeral(it.at[1].Row))
FrameLines(it) ==
    <<FrameHeader(it)>> \o [i \in 1..Len(it.params) |-> FrameParam(it, i)]
        \o <<FrameEnd(it)>>
TbItems ==
    TbFrames \cup
    {Blank,
     Bad(<<<<"x">>>>),
     Bad(<<<<"#", "T", "(">>>>),
     Bad(<<<<"#", "x", " ", "T", "(">>>>),
     Bad(<<<<"T", "(">>, <<"x">>>>),
     Bad(<<<<"T", "(">>, <<")", " at ", "m">>>>)}

\* `[at ]line R, column C`
PosText(at, row, col) ==
    (IF at THEN <<"at", " ">> ELSE <<>>) \o <<"line", " ">> \o Numeral(row)
        \o <<",", " ", "column", " ">> \o Numeral(col)
Quoted(file) == <<"\"">> \o file \o <<"\"">>
Fragment == <<">> ", "x", " ", "y">>
\* A top-level position line or a `Located in` line, each with its
\* source fragment line.
EpoTops ==
    {[type |-> "top", form |-> f, file |-> <<"/", "1">>, row |-> r, col |-> 5] :
        f \in {"eval", "file"}, r \in {1, 12}}
EpoLinks ==
    {[type |-> "link", form |-> f, file |-> <<"/", "2">>, row |-> r, col |-> 5] :
        f \in {"eval", "file"}, r \in {1, 12}}
        \cup {[type |-> "link", form |-> "bare", file |-> <<>>, row |-> 0, col |-> 0]}
EpoLine(it) ==
    CASE it.type = "top" /\ it.form = "eval" ->
            <<"In eval expression, ">> \o PosText(FALSE, it.row, it.col) \o <<":">>
      [] it.type = "top" /\ it.form = "file" ->
            <<"In file ">> \o Quoted(it.file) \o <<",", " ">>
                \o PosText(FALSE, it.row, it.col) \o <<":">>
      [] it.type = "link" /\ it.form = "eval" ->
            <<"Located in", " enclosing eval expression, at ">>
                \o PosText(FALSE, it.row, it.col) \o <<":">>
      [] it.type = "link" /\ it.form = "file" ->
            <<"Located in", " file ">> \o Quoted(it.file) \o <<",", " ">>
                \o PosText(TRUE, it.row, it.col) \o <<":">>
      [] it.type = "link" /\ it.form = "bare" -> <<"Located in", ":">>
EpoItems ==
    EpoTops \cup EpoLinks \cup
    {Bad(<<<<"x">>>>),
     Bad(<<<<"Located in", "x">>>>),
     Bad(<<<<"In file ", "f", ":">>>>),
     Bad(<<<<"In eval expression, ", "line", " ", "1", ":">>>>)}

\* A listing header, and a signature: `[Defined in ...:]`, the
\* statement `[name](params) -> returns`, `[`, `p`, `]`, an empty line,
\* the comment and an empty line.
SigHeader == [type |-> "header", name |-> <<"N">>, lines |-> <<>>]
SigBase ==
    {[type |-> "sig", loc |-> l, name |-> <<>>, params |-> ps, opt |-> o,
      comment |-> <<<<"c">>>>] :
        l \in {"none", "file"},
        ps \in {<<>>, <<"G", "::", "T", ", ", "p", "::", "U">>},
        o \in BOOLEAN}
SigMore ==
    {[type |-> "sig", loc |-> "glue", name |-> <<>>, params |-> <<"T">>,
      opt |-> FALSE, comment |-> <<<<"c">>, <<"d">>>>],
     [type |-> "sig", loc |-> "none", name |-> <<"M">>, params |-> <<"T">>,
      opt |-> FALSE, comment |-> <<>>]}
SigLines(it) ==
    (CASE it.loc = "file" ->
            <<<<"Defined in file: ", "f", ",", " ", "line", " ", "7", "2", "2",
                ",", " ", "column", " ", "2", "0", ":">>>>
       [] it.loc = "glue" -> <<<<"Defined in glue: ", "g", ":">>>>
       [] it.loc = "none" -> <<>>)
        \o <<it.name \o <<"(">> \o it.params \o <<")", " ", "->", " ", "R">>>>
        \o (IF it.opt THEN <<<<"[">>, <<"p">>, <<"]">>>> ELSE <<>>)
        \o <<<<>>>> \o it.comment \o <<<<>>>>
SigItems ==
    {SigHeader} \cup SigBase \cup SigMore \cup
    {Bad(<<<<"Intrinsic '">>>>),
     Bad(<<<<"Intrinsic '", "N">>>>),
     Bad(<<<<"Signatures matching ", "N">>>>),
     Bad(<<<<"Defined in file: ", "f", ":">>>>),
     Bad(<<<<"(", "G">>, <<>>>>)}

ItemsOf(kind) ==
    CASE kind = "tb" -> TbItems [] kind = "epo" -> EpoItems [] kind = "sig" -> SigItems

LinesOf(it) ==
    CASE it.type = "frame" -> FrameLines(it)
      [] it.type \in {"top", "link"} -> <<EpoLine(it), Fragment>>
      [] it.type = "header" ->
            <<<<"Intrinsic '">> \o it.name \o <<"'">>, <<>>, <<"Signatures:">>, <<>>>>
      [] it.type = "sig" -> SigLines(it)
      [] OTHER -> it.lines

\* testParser: p.start(src) on a parser just made.
TestStart(i) ==
    /\ tpc = "off" /\ pdoc.kind = ""
    /\ prs' = [prs EXCEPT ![i] = start(prs[i])]
    /\ pdoc' = [pdoc EXCEPT !.kind = ParserList[i], !.p = i]
    /\ UNCHANGED <<sessionVars, pgot, plines, taggedVars>>

\* The input slice gets one more item.
TestItem(it) ==
    /\ pdoc.p # Nil /\ ~pdoc.ended /\ pdoc.queue = <<>>
    /\ Len(pdoc.items) < MaxItems
    /\ it \in ItemsOf(pdoc.kind)
    /\ pdoc' = [pdoc EXCEPT !.items = Append(@, it), !.queue = LinesOf(it)]
    /\ UNCHANGED <<sessionVars, prs, pgot, plines, taggedVars>>

\* outputLineConsumerProvider: ch <- x, which the parser is to receive.
ProviderSend ==
    /\ Alive /\ pdoc.p # Nil /\ pdoc.queue # <<>>
    /\ prs[pdoc.p].inq = <<>>
    /\ prs' = [prs EXCEPT ![pdoc.p].inq = <<Head(pdoc.queue)>>]
    /\ plines' = Append(plines, Head(pdoc.queue))
    /\ pdoc' = [pdoc EXCEPT !.queue = Tail(@)]
    /\ UNCHANGED <<sessionVars, pgot, taggedVars>>

\* outputLineConsumerProvider: close(ch) after the last line of the
\* slice; the slice may end inside an item.
ProviderClose ==
    /\ Alive /\ pdoc.p # Nil /\ ~pdoc.ended
    /\ prs[pdoc.p].inq = <<>>
    /\ prs' = [prs EXCEPT ![pdoc.p].inClosed = TRUE]
    /\ pdoc' = [pdoc EXCEPT !.ended = TRUE, !.cut = (pdoc.queue # <<>>),
                            !.queue = <<>>]
    /\ UNCHANGED <<sessionVars, pgot, plines, taggedVars>>

\* testChannelOutput: x, ok := <-ch with ok true.
TestReceive ==
    /\ Alive /\ pdoc.p # Nil /\ prs[pdoc.p].emit # <<>>
    /\ pgot' = Append(pgot, Head(prs[pdoc.p].emit))
    /\ prs' = [prs EXCEPT ![pdoc.p].emit = Tail(@)]
    /\ UNCHANGED <<sessionVars, plines, pdoc, taggedVars>>

NextParsers ==
    \/ \E i \in Parsers : TestStart(i)
    \/ \E it \in TbItems \cup EpoItems \cup SigItems : TestItem(it)
    \/ ProviderSend
    \/ ProviderClose
    \/ TestReceive
    \/ \E i \in Parsers : ParserStep(i)

SpecParsers == Init /\ [][NextParsers]_vars

\* ------------------------------------------ package parse: ParseTagged

\* MaxTagged bounds the number of events that arrive on in.
MaxTagged == 5

TaggedLine(tag, data) == [type |-> "Line", tag |-> tag, Data |-> data]
IsLine(x) == x.type = "Line"

\* The events on in: lines of traceback, error position and signature
\* output, and a line of normal output.
TaggedEvents ==
    {TaggedLine("TB", <<"T", "(">>), TaggedLine("TB", <<")">>),
     TaggedLine("EPO", <<"In eval expression, ", "line", " ", "1", ",", " ",
                         "column", " ", "2", ":">>),
     TaggedLine("EPO", <<">> ", "x">>),
     TaggedLine("SIG", <<"(", "G", ")">>), TaggedLine("SIG", <<>>),
     TaggedLine("OUT", <<"o">>)}

AcceptedTag(kind) ==
    CASE kind = "sig" -> "SIG" [] kind = "epo" -> "EPO" [] kind = "tb" -> "TB"
\* p.Accepts(x) of the parser object i
Accepts(i, x) == x.tag = AcceptedTag(ParserList[i])

\* <-done
noWait == TRUE
waitDone == done

\* The loop over the parsers with the event x, the event number at of
\* in: the first parser that accepts x is run on a new src, with a new
\* done and a goroutine that forwards what it sends; x itself goes
\* nowhere. Without such a parser, x is to be sent on out.
Select(x, at) ==
    IF \E i \in Parsers : Accepts(i, x)
    THEN LET p == CHOOSE i \in Parsers :
                     Accepts(i, x) /\ \A j \in 1..(i - 1) : ~Accepts(j, x)
         IN  /\ prs' = [prs EXCEPT ![p] = start(prs[p])]
             /\ src' = "open" /\ done' = FALSE
             /\ ts' = [st |-> "recv", p |-> p]
             /\ fw' = [st |-> "run", p |-> p, buf |-> <<>>, run |-> at]
             /\ tcur' = p /\ tpc' = "recv" /\ tx' = <<>>
    ELSE /\ tpc' = "pass" /\ tx' = <<x>> /\ tcur' = Nil
         /\ UNCHANGED <<prs, src, done, ts, fw>>

\* go ParseTagged(in, out, parsers...)
TaggedStart ==
    /\ tpc = "off" /\ pdoc.kind = ""
    /\ tpc' = "recv"
    /\ UNCHANGED <<sessionVars, parserVars, tx, tcur, src, done, ts, fw, tin,
                   tseen, tsent, tout>>

\* for x := range in, with an event x: it is for the current parser, or
\* the current parser is closed and waited for, or a parser is looked
\* for.
TaggedRecv(x) ==
    /\ Alive /\ tpc = "recv" /\ ~tin.closed /\ tin.n < MaxTagged
    /\ tin' = [tin EXCEPT !.n = @ + 1]
    /\ tseen' = Append(tseen, x)
    /\ IF tcur # Nil
       THEN /\ IF Accepts(tcur, x)
               THEN tpc' = "send" /\ UNCHANGED <<src, tcur>>
               ELSE tpc' = "wait" /\ src' = "closed" /\ tcur' = Nil
            /\ tx' = <<x>>
            /\ UNCHANGED <<prs, done, ts, fw>>
       ELSE Select(x, tin.n + 1)
    /\ UNCHANGED <<sessionVars, pgot, plines, pdoc, tsent, tout>>

\* <-done inside the loop, then the loop over the parsers.
TaggedWait ==
    /\ Alive /\ tpc = "wait" /\ waitDone
    /\ Select(tx[1], tin.n)
    /\ UNCHANGED <<sessionVars, pgot, plines, pdoc, tin, tseen, tsent, tout>>

\* src <- x, received by the goroutine of
\* taggedOutputSourceForLineConsumer, which is then to send the Data of
\* an accepted line to the parser.
TaggedSend ==
    /\ Alive /\ tpc = "send" /\ src = "open"
    /\ ts.st = "recv" /\ prs[ts.p].inq = <<>>
    /\ tsent' = Append(tsent, [at |-> tin.n, x |-> tx[1]])
    /\ prs' = IF IsLine(tx[1]) /\ Accepts(ts.p, tx[1])
              THEN [prs EXCEPT ![ts.p].inq = <<tx[1].Data>>]
              ELSE prs
    /\ tpc' = "recv" /\ tx' = <<>>
    /\ UNCHANGED <<sessionVars, pgot, plines, pdoc, tcur, src, done, ts, fw,
                   tin, tseen, tout>>

\* taggedOutputSourceForLineConsumer: source is closed, so
\* close(outputSource).
TaggedSourceEnd ==
    /\ Alive /\ ts.st = "recv" /\ src = "closed" /\ prs[ts.p].inq = <<>>
    /\ prs' = [prs EXCEPT ![ts.p].inClosed = TRUE]
    /\ ts' = [ts EXCEPT !.st = "done"]
    /\ UNCHANGED <<sessionVars, pgot, plines, pdoc, tpc, tx, tcur, src, done,
                   fw, tin, tseen, tsent, tout>>

\* out <- x for an event that no parser accepts.
TaggedPass ==
    /\ Alive /\ tpc = "pass" /\ ~tout.closed
    /\ tout' = [tout EXCEPT !.got = Append(@, [from |-> "in", at |-> tin.n,
                                              v |-> tx[1]])]
    /\ tpc' = "recv" /\ tx' = <<>>
    /\ UNCHANGED <<sessionVars, parserVars, tcur, src, done, ts, fw, tin,
                   tseen, tsent>>

\* The forwarding goroutine: y from parsedOutput.
ForwardRecv ==
    /\ Alive /\ fw.st = "run" /\ fw.buf = <<>> /\ prs[fw.p].emit # <<>>
    /\ fw' = [fw EXCEPT !.buf = <<Head(prs[fw.p].emit)>>]
    /\ prs' = [prs EXCEPT ![fw.p].emit = Tail(@)]
    /\ UNCHANGED <<sessionVars, pgot, plines, pdoc, tpc, tx, tcur, src, done,
                   ts, tin, tseen, tsent, tout>>

\* The forwarding goroutine: out <- y.
ForwardSend ==
    /\ Alive /\ fw.st = "run" /\ fw.buf # <<>> /\ ~tout.closed
    /\ tout' = [tout EXCEPT !.got = Append(@, [from |-> "parser", at |-> fw.run,
                                              v |-> fw.buf[1]])]
    /\ fw' = [fw EXCEPT !.buf = <<>>]
    /\ UNCHANGED <<sessionVars, parserVars, tpc, tx, tcur, src, done, ts, tin,
                   tseen, tsent>>

\* The forwarding goroutine: parsedOutput is closed, so close(done).
ForwardEnd ==
    /\ Alive /\ fw.st = "run" /\ fw.buf = <<>>
    /\ prs[fw.p].emit = <<>> /\ prs[fw.p].outClosed
    /\ done' = TRUE
    /\ fw' = [fw EXCEPT !.st = "done"]
    /\ UNCHANGED <<sessionVars, parserVars, tpc, tx, tcur, src, ts, tin, tseen,
                   tsent, tout>>

\* in is closed: the current parser, if any, is closed and waited for;
\* else close(out).
TaggedInEnd ==
    /\ Alive /\ tpc = "recv" /\ ~tin.closed
    /\ tin' = [tin EXCEPT !.closed = TRUE]
    /\ IF tcur # Nil
       THEN /\ src' = "closed" /\ tcur' = Nil /\ tpc' = "waitEnd"
            /\ UNCHANGED tout
       ELSE /\ tout' = [tout EXCEPT !.closed = TRUE] /\ tpc' = "done"
            /\ UNCHANGED <<src, tcur>>
    /\ UNCHANGED <<sessionVars, parserVars, tx, done, ts, fw, tseen, tsent>>

\* <-done after the loop, then close(out).
TaggedEnd ==
    /\ Alive /\ tpc = "waitEnd" /\ waitDone
    /\ tout' = [tout EXCEPT !.closed = TRUE]
    /\ tpc' = "done"
    /\ UNCHANGED <<sessionVars, parserVars, tx, tcur, src, done, ts, fw, tin,
                   tseen, tsent>>

NextTagged ==
    \/ TaggedStart
    \/ \E x \in TaggedEvents : TaggedRecv(x)
    \/ TaggedWait
    \/ TaggedSend
    \/ TaggedSourceEnd
    \/ TaggedPass
    \/ ForwardRecv
    \/ ForwardSend
    \/ ForwardEnd
    \/ TaggedInEnd
    \/ TaggedEnd
    \/ \E i \in Parsers : ParserStep(i)

SpecTagged == Init /\ [][NextTagged]_vars

\* The library driven by a child that follows the protocol and does not
\* end, with read statements whose reader answers each ReadRequest on its
\* Output channel.
NextProgress ==
    \/ Library
    \/ DecodePromptLine
    \/ DecWriteReply
    \/ DecWriteNewline
    \/ \E o \in Outs, v \in ReplyTexts : ReplyOutput(o, v)
    \/ ChildEmit({"event", "stmt", "prompt"})
    \/ ChildAccept
    \/ ChildReadReply

\* Every task that can take a step eventually takes one: the status stream
\* is consumed, the Outputs are drained and their read requests answered,
\* and the child goes on writing.
SpecProgress == Init /\ [][NextProgress]_vars /\ WF_vars(NextProgress)

\* The steps of ParseTagged and of the goroutines it starts, with an input
\* that is closed in the end and an out that is consumed.
TaggedRuns ==
    \/ TaggedStart
    \/ \E x \in TaggedEvents : TaggedRecv(x)
    \/ TaggedWait
    \/ TaggedSend
    \/ TaggedSourceEnd
    \/ TaggedPass
    \/ ForwardRecv
    \/ ForwardSend
    \/ ForwardEnd
    \/ TaggedInEnd
    \/ TaggedEnd

\* A parser can take a step: it has a line to fetch or its source is
\* closed, or it is to close its output.
ParserCanStep ==
    /\ Alive
    /\ \E i \in Parsers :
          \/ /\ prs[i].fn \in Fetching /\ prs[i].emit = <<>>
             /\ prs[i].inq # <<>> \/ prs[i].inClosed
          \/ prs[i].fn = "end" /\ prs[i].emit = <<>>

\* ParseTagged and its goroutines take the steps they can take.
SpecTaggedFair == Init /\ [][NextTagged]_vars /\ WF_vars(TaggedRuns)

\* ------------------------------------ the line reader, byte by byte

\* The bytes of the child's stdout for the given lines.
RECURSIVE StreamOf(_)
StreamOf(ls) ==
    IF ls = <<>> THEN <<>> ELSE Head(ls) \o <<NL>> \o StreamOf(Tail(ls))

ScanStreams ==
    {StreamOf(ls) : ls \in UNION {[1..n -> ScanLines] : n \in 1..MaxScanLines}}

\* The bytes a slice of the scanner's buffer shows: a []byte is a view of
\* the array under it, not a copy.
sliceBytes(buf, sl) == [i \in 1..sl.len |-> buf[sl.off + i]]

\* Offset of the first newline in buf[start:end], or -1.
IndexNL(sc) ==
    LET is == {i \in sc.start..(sc.end - 1) : sc.buf[i + 1] = NL}
    IN  IF is = {} THEN -1 ELSE CHOOSE i \in is : \A j \in is : i <= j

\* The buffer before Scan reads more: the data is moved to the front when
\* the space behind it is used up or more than half the buffer lies
\* before it.
shiftBuffer(sc) ==
    IF sc.start > 0 /\ (sc.end = BufCap \/ sc.start > BufCap \div 2)
    THEN [sc EXCEPT !.buf = [i \in 1..BufCap |->
                                IF i <= sc.end - sc.start
                                THEN sc.buf[sc.start + i] ELSE sc.buf[i]],
                    !.start = 0, !.end = sc.end - sc.start]
    ELSE sc

\* The buffer after n bytes of stdout were read in behind the data.
readInto(sc, n) ==
    [sc EXCEPT !.buf = [i \in 1..BufCap |->
                           IF i > sc.end /\ i <= sc.end + n
                           THEN sc.stdout[i - sc.end] ELSE sc.buf[i]],
               !.end = sc.end + n,
               !.stdout = SubSeq(sc.stdout, n + 1, Len(sc.stdout))]

\* What is sent on ch: the token b, a slice of the scanner's buffer, or
\* its copy l.
sentCopy(r) == [off |-> 0, len |-> 0, copy |-> r.l]
sentLine(r) == [off |-> r.b.off, len |-> r.b.len, copy |-> <<>>]

\* The bytes the receiver finds in the line it was handed.
lineBytes(buf, output) ==
    IF output.copy # <<>> THEN output.copy ELSE sliceBytes(buf, output)

\* setupStdoutHandler starts the line reader on the child's stdout:
\* s := bufio.NewScanner(stdout).
ScanStart(stream) ==
    /\ rdr.pc = "off"
    /\ scanner' = [scanner EXCEPT !.stdout = stream]
    /\ rdr' = [rdr EXCEPT !.pc = "scan"]
    /\ UNCHANGED <<procVars, heapVars, spc, decVars, execVars, intrVars,
                   childVars, histVars, endVars, lifeVars, dline, parseVars>>

\* s.Scan() finds a whole line in the buffer and returns true;
\* b := s.Bytes(); l := make([]byte, len(b)); copy(l, b).
ScanToken ==
    /\ rdr.pc = "scan" /\ IndexNL(scanner) >= 0
    /\ LET b == [off |-> scanner.start, len |-> IndexNL(scanner) - scanner.start]
       IN  rdr' = [pc |-> "send", b |-> b, l |-> sliceBytes(scanner.buf, b)]
    /\ scanner' = [scanner EXCEPT !.start = IndexNL(scanner) + 1]
    /\ UNCHANGED <<procVars, heapVars, spc, decVars, execVars, intrVars,
                   childVars, histVars, endVars, lifeVars, dline, parseVars>>

\* s.Scan() finds no whole line in the buffer: it moves the data to the
\* front if need be and reads the n bytes the pipe holds.
ScanFill(n) ==
    /\ rdr.pc = "scan" /\ IndexNL(scanner) < 0
    /\ n >= 1 /\ n <= Len(scanner.stdout)
    /\ n <= BufCap - shiftBuffer(scanner).end
    /\ scanner' = readInto(shiftBuffer(scanner), n)
    /\ UNCHANGED <<procVars, heapVars, spc, decVars, execVars, intrVars,
                   childVars, histVars, endVars, lifeVars, rdr, dline,
                   parseVars>>

\* s.Scan() returns false at the end of stdout: close(ch);
\* p.errch <- s.Err().
ScanEOF ==
    /\ rdr.pc = "scan" /\ IndexNL(scanner) < 0 /\ scanner.stdout = <<>>
    /\ rdr' = [rdr EXCEPT !.pc = "done"]
    /\ UNCHANGED <<procVars, heapVars, spc, decVars, execVars, intrVars,
                   childVars, histVars, endVars, lifeVars, scanner, dline,
                   parseVars>>

\* case ch <- b, met by output, ok := <-ch in parseStdoutLines. sent is
\* what the line holds at this moment.
ReaderSend ==
    /\ rdr.pc = "send" /\ dline.pc = "recv"
    /\ dline' = [dline EXCEPT !.pc = "proc", !.output = sentLine(rdr),
                              !.sent = rdr.l]
    /\ rdr' = [rdr EXCEPT !.pc = "scan"]
    /\ UNCHANGED <<procVars, heapVars, spc, decVars, execVars, intrVars,
                   childVars, histVars, endVars, lifeVars, scanner, parseVars>>

\* case <-stop: break, which leaves the select; the loop goes on.
ReaderDrop ==
    /\ rdr.pc = "send" /\ dline.pc = "stopped"
    /\ rdr' = [rdr EXCEPT !.pc = "scan"]
    /\ UNCHANGED <<procVars, heapVars, spc, decVars, execVars, intrVars,
                   childVars, histVars, endVars, lifeVars, scanner, dline,
                   parseVars>>

\* parseStdoutLines works on the line it received: parseTagLine(output)
\* and the handlers read it; log keeps what was sent and what was read.
DecoderProcess ==
    /\ dline.pc = "proc"
    /\ dline' = [dline EXCEPT
                    !.pc = "recv",
                    !.log = Append(@, [sent |-> dline.sent,
                                       read |-> lineBytes(scanner.buf,
                                                          dline.output)])]
    /\ UNCHANGED <<procVars, heapVars, spc, decVars, execVars, intrVars,
                   childVars, histVars, endVars, lifeVars, scanner, rdr,
                   parseVars>>

\* parseStdoutLines returns, and the decoder goroutine closes stop.
DecoderReturn ==
    /\ rdr.pc # "off" /\ dline.pc = "recv"
    /\ dline' = [dline EXCEPT !.pc = "stopped"]
    /\ UNCHANGED <<procVars, heapVars, spc, decVars, execVars, intrVars,
                   childVars, histVars, endVars, lifeVars, scanner, rdr,
                   parseVars>>

\* The line reader and the receiver of its lines, under every interleaving.
NextReader ==
    \/ \E stream \in ScanStreams : ScanStart(stream)
    \/ ScanToken
    \/ \E n \in 1..BufCap : ScanFill(n)
    \/ ScanEOF
    \/ ReaderSend
    \/ ReaderDrop
    \/ DecoderProcess
    \/ DecoderReturn

SpecReader == Init /\ [][NextReader]_vars

\* ---------------------------------------------------------------- claims

TagAt(j) == seen[j].tagName

\* The position of the Output o in the order of binding, 0 if it is not
\* bound yet.
BoundIdx(o) ==
    IF \E k \in 1..Len(bound) : bound[k].out = o
    THEN CHOOSE k \in 1..Len(bound) : bound[k].out = o
    ELSE 0

\* Indices of the RDY lines processed after the line that bound o.
RdyAfter(o) ==
    {j \in 1..Len(seen) : j > bound[BoundIdx(o)].at /\ TagAt(j) = "RDY"}

\* The first of them.
ClosingRdy(o) == CHOOSE j \in RdyAfter(o) : \A i \in RdyAfter(o) : j <= i

\* The events the decoder forwarded while o was bound, in order.
EventsOf(o) ==
    LET sel == SelectSeq(fwd, LAMBDA f : f.epoch = BoundIdx(o))
    IN  [i \in 1..Len(sel) |-> sel[i].ev]

IsPrefix(a, b) == Len(a) <= Len(b) /\ a = SubSeq(b, 1, Len(a))

Executing == {c \in Callers : epc[c] \notin {"idle", "done", "failed", "panic"}}
Writing == {c \in Callers : epc[c] \in {"write2", "awaitResp"}}

\* C1 as stated: at most one Execute call at a time has taken a handshake
\* offer and not yet returned, each call that has returned got the Output
\* made for its own command, and no Output is returned to two calls.
C1_AsStated ==
    /\ Cardinality(Executing) <= 1
    /\ \A c \in Callers : epc[c] = "done" =>
          eret[c] = eout[c] /\ outs[eret[c]].cmd = ecmd[c]
    /\ \A c, d \in Callers :
          c # d /\ epc[c] = "done" /\ epc[d] = "done" => eret[c] # eret[d]

\* C1, amended: at most one Execute call at a time has written to stdin and
\* not yet returned (a second call may already have taken the next offer,
\* but it cannot write before the first returns), each call that has
\* returned got the Output made for its own command, and no Output is
\* returned to two calls.
C1_Serialized ==
    /\ Cardinality(Writing) <= 1
    /\ \A c \in Callers : epc[c] = "done" =>
          eret[c] = eout[c] /\ outs[eret[c]].cmd = ecmd[c]
    /\ \A c, d \in Callers :
          c # d /\ epc[c] = "done" /\ epc[d] = "done" => eret[c] # eret[d]

\* Two calls overlap: the first has written its command and its Output is
\* published but not yet returned, and the second has already taken the
\* next offer and waits for the writer.
C1_Witness ==
    /\ epc["c1"] = "awaitResp" /\ response = <<eout["c1"]>>
    /\ epc["c2"] = "takeWriter" /\ eout["c2"] # Nil

\* C2: the combined stream of an Output carries exactly the events the
\* decoder forwarded between the line that bound the Output and the
\* following RDY, once each and in order, through Responses of that Output
\* taken in the order they were opened, and it ends only after the Output
\* is closed and every one of these events has been delivered.
C2_CombinedStream ==
    \A o \in Outs :
        IF BoundIdx(o) = 0 THEN outs[o].got = <<>> /\ outs[o].cpc # "done"
        ELSE /\ IsPrefix(outs[o].got, EventsOf(o))
             /\ outs[o].cpc = "done" =>
                   outs[o].got = EventsOf(o) /\ outs[o].closed = 1
             /\ \A i \in 1..Len(fwd) : fwd[i].epoch = BoundIdx(o) =>
                   /\ fwd[i].at > bound[BoundIdx(o)].at
                   /\ RdyAfter(o) # {} => fwd[i].at < ClosingRdy(o)
                   /\ resps[fwd[i].resp].of = o
                   /\ \A j \in 1..Len(fwd) :
                         j < i /\ fwd[j].epoch = BoundIdx(o) =>
                            fwd[j].resp <= fwd[i].resp

\* The stream of the second command has ended after events of two
\* Responses, and the first command had events of its own.
C2_Witness ==
    \E o \in Outs :
        /\ BoundIdx(o) = 3 /\ outs[o].cpc = "done" /\ Len(outs[o].got) >= 1
        /\ \E p \in Outs : BoundIdx(p) = 2 /\ Len(outs[p].got) >= 1

Holders ==
    {c \in Callers : ew[c] # ""} \cup (IF dw # "" THEN {"dec"} ELSE {})

\* C3: at most one task holds the stdin writer (and it is in the channel
\* exactly when no task holds it), every chunk written was written by the
\* task holding it, and stdin is a sequence of whole units, a text followed
\* by its terminator from the same task; only the last unit may lack its
\* terminator, while its writer still holds the writer or when the write
\* of the terminator failed.
C3_WriterToken ==
    /\ Cardinality(Holders) + Len(writer) = 1
    /\ \A i \in 1..Len(stdin) :
          IF i % 2 = 1
          THEN /\ stdin[i].text \notin {RunChar, NL}
               /\ i = Len(stdin) =>
                     \/ stdin[i].by \in Holders
                     \/ stdin[i].by \in Callers /\ epc[stdin[i].by] = "failed"
          ELSE /\ stdin[i].by = stdin[i - 1].by
               /\ stdin[i].text = IF stdin[i].by = "dec" THEN NL ELSE RunChar

\* A call holds the writer between its two writes, after the decoder has
\* written a reply to a read.
C3_Witness ==
    /\ \E c \in Callers : ew[c] # "" /\ Len(stdin) % 2 = 1
    /\ \E i \in 1..Len(stdin) : stdin[i].by = "dec"

\* No line that opens a Response or carries an event was processed between
\* the binding of o and the RDY that follows.
Trivial(o) ==
    \A j \in 1..Len(seen) :
        j > bound[BoundIdx(o)].at /\ j < ClosingRdy(o) =>
           TagAt(j) \in {"IR", "RES", "INT", "QUIT", ""}

\* C4: an Output is closed exactly once, when the decoder processes the
\* first RDY after the line that bound it and not before; when the Output
\* was bound by an IR line and nothing but status lines came before that
\* RDY, it is closed without a Response or an event having been delivered.
C4_OutputClosedAtReady ==
    \A o \in Outs :
        IF BoundIdx(o) = 0 THEN outs[o].closed = 0
        ELSE /\ outs[o].closed = IF RdyAfter(o) # {} THEN 1 ELSE 0
             /\ BoundIdx(o) >= 2 /\ RdyAfter(o) # {} /\ Trivial(o) =>
                   /\ outs[o].got = <<>>
                   /\ \A r \in 1..Len(resps) : resps[r].of # o

\* The stream of a trivial statement has ended with nothing delivered.
C4_Witness ==
    \E o \in Outs :
        /\ BoundIdx(o) >= 2 /\ RdyAfter(o) # {} /\ Trivial(o)
        /\ outs[o].cpc = "done" /\ outs[o].closed = 1

Resps == 1..Len(resps)
DecoderStopped == dpc \in {"done", "panic"}

\* C5 as stated: no Response is closed twice, every Response but the
\* current one is closed, and once the decoder has stopped every Response
\* opened during the session is closed.
C5_AsStated ==
    \A r \in Resps :
        /\ resps[r].closed <= 1
        /\ r # h_c \/ DecoderStopped => resps[r].closed = 1

\* C6: the decoder never sends on a closed Response channel: whenever it
\* is sending an event, the Response it sends to is the one opened last and
\* is open, and it never panics with a send on a closed channel.
C6_NoSendAfterClose ==
    /\ derr # "panic: send on closed channel"
    /\ dpc = "sendEvent" =>
          h_c = Len(resps) /\ resps[h_c].closed = 0 /\ pend # <<>>

\* An event is being sent to a Response opened after an earlier one, which
\* had an event of its own, was closed.
C6_Witness ==
    /\ dpc = "sendEvent"
    /\ \E i \in 1..Len(fwd) :
          fwd[i].resp < h_c /\ resps[fwd[i].resp].closed = 1

\* C7: at most one Response is open, and it is the current one; while a
\* new Response is being published every earlier one is closed.
C7_OneOpenResponse ==
    {r \in Resps : resps[r].closed = 0} \subseteq {h_c}

\* A Response is being published on an Output whose previous Response was
\* still open when the new one was made.
C7_Witness ==
    /\ dpc = "sendResp" /\ h_c >= 3
    /\ resps[h_c - 1].of = resps[h_c].of
    /\ resps[h_c - 1].kind # "start"
    /\ resps[h_c - 1].closed = 1

Count(S) == Cardinality(S)
Replied == {q \in 1..Len(reqs) : reqs[q].fromOutput = 1}
DecChunks(texts) ==
    {i \in 1..Len(stdin) : stdin[i].by = "dec" /\ stdin[i].text \in texts}

\* C8, the state part: a ReadRequest gets at most one value, from one of
\* its two channels, and none while the decoder waits for it; each reply
\* is written to stdin, followed by a newline; an error ends decoding with
\* that error.
C8_Replies ==
    /\ \A q \in 1..Len(reqs) :
          /\ reqs[q].fromOutput + reqs[q].fromErr <= 1
          /\ reqs[q].fromErr = 1 /\ reqs[q].errv # "" =>
                dpc = "done" /\ derr = reqs[q].errv
    /\ dpc = "awaitReply" =>
          /\ rreq # Nil
          /\ reqs[rreq].fromOutput + reqs[rreq].fromErr = 0
          /\ \E i \in 1..Len(fwd) :
                fwd[i].ev.kind = "ReadRequest" /\ fwd[i].ev.req = rreq
    /\ Count(DecChunks(ReplyTexts)) =
          Count(Replied) - (IF dpc = "awaitWriter" THEN 1 ELSE 0)
    /\ Count(DecChunks({NL})) =
          Count(DecChunks(ReplyTexts)) - (IF dpc = "write2" THEN 1 ELSE 0)

\* C8, the step part: from the forwarding of a ReadRequest until its value
\* has come the decoder processes no line, and it leaves the wait by
\* taking exactly one value.
C8_Blocked ==
    dpc = "awaitReply" =>
       /\ seen' = seen
       /\ dpc' # "awaitReply" =>
             reqs'[rreq].fromOutput + reqs'[rreq].fromErr = 1

RECURSIVE Accumulate(_, _)
Accumulate(j, p) ==
    IF j <= Len(seen) /\ TagAt(j) \in PromptTagNames
    THEN Accumulate(j + 1,
                    p \o (IF seen[j].tagFields[1] # "C" THEN <<NL>> ELSE <<>>)
                      \o seen[j].data)
    ELSE p

\* The index of the line that ends the prompt sequence opened at line j
\* (one past the last line when it is not ended yet).
RECURSIVE SequenceEnd(_)
SequenceEnd(j) ==
    IF j <= Len(seen) /\ TagAt(j) \in PromptTagNames
    THEN SequenceEnd(j + 1) ELSE j

Forwarded(q) ==
    {i \in 1..Len(fwd) : fwd[i].ev.kind = "ReadRequest" /\ fwd[i].ev.req = q}

\* C9: the Prompt of a ReadRequest is the data of the opening prompt line
\* followed, for each later prompt line in order, by that line's data
\* after a newline, or after nothing when its field is "C"; the request is
\* forwarded once, when the RD_IN line ends the sequence, and not before.
C9_Prompt ==
    \A q \in 1..Len(reqs) :
        LET open == reqs[q].at
            end == SequenceEnd(open + 1)
        IN  /\ TagAt(open) \in PromptTagNames
            /\ reqs[q].prompt = Accumulate(open + 1, seen[open].data)
            /\ Count(Forwarded(q)) =
                  IF end <= Len(seen) /\ TagAt(end) \in InputTagNames
                  THEN 1 ELSE 0

\* A request was forwarded whose prompt was put together from an opening
\* line, a continuation and a line that starts a new line of the prompt.
C9_Witness ==
    \E q \in 1..Len(reqs) :
        /\ Forwarded(q) # {}
        /\ reqs[q].prompt = <<"p", "q", NL, "p">>

IntPending ==
    /\ ich # Nil /\ acks[ich].busy /\ acks[ich].closed = 0
    /\ \E i \in 1..Len(pipe) : parseTagLine(pipe[i]).tagName = "INT"

Acknowledged == ich # Nil /\ acks[ich].busy /\ acks[ich].closed = 1

Succeeded(c) ==
    epc[c] = "done" /\ eret[c] = eout[c] /\ outs[eret[c]].cmd = ecmd[c]

\* C10: when InterruptExecution was called while a command was executing
\* and the child has written its INT line, the acknowledgment channel is
\* eventually closed; no acknowledgment channel is closed twice; and once
\* it is closed, an Execute call not yet made eventually returns its
\* Output.
C10_Interrupt ==
    /\ [](\A a \in 1..Len(acks) : acks[a].closed <= 1)
    /\ IntPending ~> Acknowledged
    /\ (Acknowledged /\ epc["c2"] = "idle") ~> Succeeded("c2")

\* The interrupt of the first command was acknowledged, the RDY that
\* follows was processed, and the second call has returned.
C10_Witness ==
    /\ Acknowledged /\ Succeeded("c2")
    /\ bound[BoundIdx(eout["c2"])].at > 1
    /\ \E j \in 1..Len(seen) :
          /\ TagAt(j) = "INT" /\ j < bound[BoundIdx(eout["c2"])].at
          /\ \E k \in 1..Len(seen) :
                TagAt(k) = "RDY" /\ j < k /\ k < bound[BoundIdx(eout["c2"])].at

\* ------------------------------------------------- the end of a session

\* The decoder is about to process a line with this tag in its main loop.
Processing(tag) ==
    /\ dpc = "read" /\ pipe # <<>> /\ seen' # seen
    /\ parseTagLine(Head(pipe)).tagName = tag

QuitSeen == \E j \in 1..Len(seen) : TagAt(j) = "QUIT"
QuitAcks == {a \in 1..Len(acks) : acks[a].kind = "quit"}

\* C11, the state part: no acknowledgment channel of Quit is closed twice,
\* and none is closed before the decoder has processed a QUIT line; once it
\* has, decoding has ended without an error, and Wait returns nil unless
\* the line reader or the wait for the child reports an error.
C11_Closed ==
    /\ \A a \in QuitAcks :
          acks[a].closed <= 1 /\ (acks[a].closed = 1 => QuitSeen)
    /\ QuitSeen => dpc = "done" /\ derr = "" /\ TagAt(Len(seen)) = "QUIT"
    /\ QuitSeen /\ wpc = "done" /\ rerr = "" /\ wos = "" => wret = ""

\* C11, the step part: processing a QUIT line hands a Quit status event
\* to the status consumer, closes the acknowledgment channel registered,
\* if there is one, and takes it out of the slot, ends decoding and
\* reports a nil error to Wait.
C11_Step ==
    Processing("QUIT") =>
       /\ statusLog' = Append(statusLog, Status("QUIT"))
       /\ dpc' = "done" /\ derr' = "" /\ errch' = Append(errch, "")
       /\ IF quit = <<>> THEN acks' = acks /\ quit' = quit
          ELSE /\ acks[Head(quit)].closed = 0
               /\ acks' = [acks EXCEPT ![Head(quit)].closed = 1]
               /\ quit' = Tail(quit)

\* C11: on a QUIT line the decoder emits the Quit status event, closes
\* the registered quit acknowledgment channel once, if one is pending, and
\* ends decoding with a nil error, so that it contributes no error to
\* Wait; the channel returned by Quit is never closed before a QUIT line
\* was processed.
C11_Quit == []C11_Closed /\ [][C11_Step]_vars

\* Quit has returned its channel, the channel was closed on the QUIT line,
\* and Wait has returned nil.
C11_Witness ==
    /\ QuitResult("q1") = "ok" /\ acks[qch["q1"]].closed = 1
    /\ wpc = "done" /\ wret = ""

QuitWrites == {i \in 1..Len(stdin) : stdin[i].text = QuitCmd}

\* C12 as stated: the second call of Quit, whenever it is made, returns an
\* error (it does not panic), and the quit command is written to the child
\* at most once.
C12_AsStated ==
    /\ qpc["q2"] \in {"idle", "rejected", "exec"}
    /\ epc["q2"] \in {"idle", "failed"}
    /\ Cardinality(QuitWrites) <= 1

\* C13: in its main loop the decoder takes an INT or a QUIT line for which
\* no acknowledgment channel is registered without an error: the status
\* event is emitted; after INT decoding goes on, with the multiplexer
\* (bound Output, current Response) and the handshake (offer, p.ready,
\* p.response) as they were; after QUIT decoding ends with a nil error.
C13_Step ==
    /\ Processing("INT") /\ interrupt = <<>> =>
          /\ statusLog' = Append(statusLog, Status("INT"))
          /\ dpc' = "read" /\ derr' = derr
          /\ UNCHANGED <<h_r, h_c, rch, pend, ready, response, interrupt,
                         quit, heapVars, bound, fwd, endVars>>
    /\ Processing("QUIT") /\ quit = <<>> =>
          /\ statusLog' = Append(statusLog, Status("QUIT"))
          /\ dpc' = "done" /\ derr' = ""
          /\ UNCHANGED <<h_r, h_c, rch, pend, ready, response, interrupt,
                         quit, heapVars, bound, fwd>>

C13_Unsolicited == [][C13_Step]_vars

\* With no acknowledgment channel ever registered, an INT line was
\* processed while an Output was bound, decoding went on, and a QUIT line
\* ended it without an error.
C13_Witness ==
    /\ acks = <<>> /\ dpc = "done" /\ derr = ""
    /\ Len(seen) >= 3 /\ TagAt(Len(seen)) = "QUIT"
    /\ \E j \in 2..(Len(seen) - 1) : TagAt(j) = "INT" /\ TagAt(j - 1) = "IR"

\* C14 as stated: a Quit or InterruptExecution call made after decoding
\* has ended returns an error, and no Execute call panics.
C14_AsStated ==
    /\ last.ended /\ last.op \in {"Quit", "InterruptExecution"} =>
          last.kind = "error"
    /\ \A c \in Tasks : epc[c] # "panic"

\* C15 as stated: every call made before Start returns an error.
C15_AsStated ==
    spc = "new" /\ last.op \in ApiOps => last.kind = "error"

\* C16 as stated: a Quit call that has returned an error has left nothing
\* in the quit acknowledgment slot.
C16_AsStated ==
    \A c \in Quitters :
        QuitResult(c) = "error" =>
           \A i \in 1..Len(quit) : qch[c] = Nil \/ quit[i] # qch[c]

\* C17: when the child cannot be launched Start returns an error, each
\* channel of the Process has been closed exactly once, the decoder has not
\* bound an Output or processed a line, and every later call of Execute,
\* Quit, InterruptExecution, Kill and Wait returns an error.
C17_LaunchFailure ==
    spc = "failed" =>
       /\ \A n \in ChanNames : chclosed[n] = 1
       /\ dpc \in {"waitStart", "done"} /\ derr = ""
       /\ seen = <<>> /\ bound = <<>> /\ outs = <<>> /\ statusLog = <<>>
       /\ last.op # "Getpid" => last.kind = "error"

\* After a failed launch both goroutines have ended and Wait was called.
C17_Witness ==
    /\ spc = "failed" /\ dpc = "done" /\ rpc = "done" /\ last.op = "Wait"

\* C18: Wait returns nil exactly when the decoder, the line reader and the
\* wait for the child all ended without an error; when the decoder or the
\* line reader reported an error, Wait returns one of these.
C18_WaitResult ==
    wpc = "done" =>
       /\ dpc = "done" /\ rpc = "done"
       /\ wret = "" <=> (derr = "" /\ rerr = "" /\ wos = "")
       /\ derr # "" \/ rerr # "" => wret \in {derr, rerr} \ {""}

\* Wait has returned the decoder's error although the wait for the child
\* gave an error too.
C18_Witness ==
    /\ wpc = "done" /\ derr # "" /\ wos # "" /\ wret = derr

\* C19 as stated: once Wait has returned, every Output and every Response
\* of the session is closed.
C19_AsStated ==
    wpc = "done" =>
       /\ \A o \in Outs : outs[o].closed = 1
       /\ \A r \in Resps : resps[r].closed = 1

\* The Execute call c has written its command and the run byte.
Written(c) ==
    \E i \in 1..Len(stdin) : stdin[i].by = c /\ stdin[i].text = RunChar

\* C20 as stated: an Execute call that has written its command and waits
\* for its Output when Wait closes p.response returns an error, and its
\* deferred release of the writer does not send on the closed p.writer: the
\* call does not panic.
C20_AsStated ==
    \A c \in Tasks : Written(c) => epc[c] # "panic"

\* ------------------------------------------------ the end of the stream

\* The decoder finds the stream of lines ended.
StreamEnds ==
    /\ dpc \in {"read", "readPrompt"} /\ dpc' = "done" /\ seen' = seen

\* C21, the step part: when the decoder finds the stream ended it returns
\* an error, the error is handed to Wait, and the child is sent the kill
\* signal.
C21_Step ==
    StreamEnds =>
       /\ ~QuitSeen
       /\ derr' \in {"waiting for tag line", "expected tag line (RD or RD_END)"}
       /\ errch' = Append(errch, derr') /\ ksig'

\* C21, the state part: a decoder that has run and ended without having
\* processed a QUIT line has an error as its result and the child was
\* sent the kill signal, and Wait, once it returns, returns an error;
\* after a QUIT line the result of the decoder is no error.
C21_Ended ==
    /\ dpc = "done" /\ outs # <<>> /\ ~QuitSeen =>
          derr # "" /\ ksig /\ (wpc = "done" => wret # "")
    /\ QuitSeen /\ dpc = "done" => derr = ""

\* C21: the stream ending before a QUIT line was decoded ends the decoder
\* with an error, has the child killed and makes Wait return an error; the
\* stream ending after a QUIT line leaves the decoder's result nil.
C21_StreamEnd == []C21_Ended /\ [][C21_Step]_vars

\* The stream ended in the main loop with no QUIT line, and Wait has
\* returned the decoder's error.
C21_Witness ==
    /\ dpc = "done" /\ derr = "waiting for tag line" /\ ~QuitSeen /\ ksig
    /\ rpc = "done" /\ pipe = <<>> /\ wpc = "done" /\ wret = derr

\* ------------------------------------------------------ malformed fields

\* C22 as stated: a RDY, RUN, ERP, POS or Line-class tag line with
\* malformed auxiliary fields ends the decoder with an error that it
\* returns; the decoder does not panic on such a line.
C22_AsStated ==
    seen # <<>> /\ TagAt(Len(seen)) \in {"RDY", "RUN", "ERP", "POS"} \cup LineTagNames =>
       ~(dpc = "panic" /\ derr \in PanicTexts)

\* ------------------------------------------------------ the status stream

\* The decoder takes a line in its main loop.
MainLine == dpc = "read" /\ pipe # <<>> /\ seen' # seen

IsStatusLine(t) == t.tagName \in StatusTagNames
TagsOf(q) == [j \in 1..Len(q) |-> q[j].tag]
NamesOf(q) == [j \in 1..Len(q) |-> q[j].tagName]

\* The line gives a status event: it carries a status tag, and its fields
\* parse if it is a RDY line.
GivesStatus(t) ==
    /\ IsStatusLine(t)
    /\ t.tagName = "RDY" => parseReady(t.tagFields).err = ""

C23_Step ==
    IF MainLine /\ GivesStatus(parseTagLine(Head(pipe)))
    THEN /\ Len(statusLog') = Len(statusLog) + 1
         /\ Front(statusLog') = statusLog
         /\ Last(statusLog').tag = parseTagLine(Head(pipe)).tagName
    ELSE statusLog' = statusLog

\* C23, amended: each IR, RES, QUIT, INT, RUN and ERP line, and each RDY
\* line whose fields parse, that the decoder takes in its main loop gives
\* exactly one event on the status stream, appended after the events of
\* the lines before it; no other line (a RDY line with malformed fields,
\* an output-class line, a line of a read-prompt sequence) and no other
\* step of the program gives a status event.
C23_Status == [][C23_Step]_vars

\* C23 as stated: the status events are, in order, the RDY, IR, RES,
\* QUIT, INT, RUN and ERP lines that the decoder has processed, one event
\* for each line.
C23_AsStated ==
    TagsOf(statusLog) = NamesOf(SelectSeq(seen, IsStatusLine))

\* Four lines were processed, one of them of an output class, and three
\* status events were given, the last one for a RES line.
C23_Witness ==
    /\ Len(seen) = 4 /\ Len(statusLog) = 3 /\ statusLog[3].tag = "RES"
    /\ \E j \in 1..4 : TagAt(j) \in LineTagNames

\* ------------------------------------------------------ the startup Output

\* The index in seen of the first RDY line processed, Len(seen) + 1 if
\* there is none yet.
FirstRdy ==
    IF \E j \in 1..Len(seen) : TagAt(j) = "RDY"
    THEN CHOOSE j \in 1..Len(seen) :
            TagAt(j) = "RDY" /\ \A i \in 1..(j - 1) : TagAt(i) # "RDY"
    ELSE Len(seen) + 1

\* C24, the state part: the first Output is the startup Output, with the
\* command "<startup>", and it was bound before any line was processed;
\* Start has returned only if it exists; every event forwarded for a line
\* before the first RDY line went to a Response of the startup Output, and
\* what its consumer got is a prefix of these events; the startup Output
\* is closed exactly when a RDY line has been processed; and before the
\* first RDY line no offer channel exists, p.ready is empty and no Execute
\* call has got past its receive from p.ready.
C24_Startup ==
    /\ spc = "started" => outs # <<>>
    /\ outs # <<>> =>
          /\ outs[1].cmd = "<startup>" /\ bound # <<>>
          /\ bound[1] = [out |-> 1, at |-> 0]
          /\ outs[1].closed = IF FirstRdy <= Len(seen) THEN 1 ELSE 0
          /\ IsPrefix(outs[1].got, EventsOf(1))
    /\ \A k \in 1..Len(fwd) :
          fwd[k].at < FirstRdy => fwd[k].epoch = 1 /\ resps[fwd[k].resp].of = 1
    /\ FirstRdy > Len(seen) =>
          /\ ready = <<>> /\ rchs = <<>>
          /\ \A c \in Callers : epc[c] = "idle" /\ erch[c] = Nil

\* C24, the step part: what Start returns is the startup Output, and it
\* is bound when Start returns unless a RDY line has closed it already.
C24_Step ==
    spc = "awaitStartup" /\ spc' = "started" =>
       /\ Head(response) = 1 /\ outs[1].cmd = "<startup>"
       /\ h_r = 1 \/ outs[1].closed = 1

\* C24: Start returns the startup Output, which the decoder bound before
\* it processed any line; the events decoded before the first RDY line
\* are delivered in it; it is closed at the first RDY line; no Execute
\* call obtains an offer channel before the first RDY line.
C24_StartupOutput == []C24_Startup /\ [][C24_Step]_vars

\* Two events came before the first RDY line, the consumer of the startup
\* Output has got both and found it closed, and an Execute call has taken
\* the offer channel made at that RDY line.
C24_Witness ==
    /\ FirstRdy = 3 /\ Len(outs[1].got) = 2 /\ outs[1].cpc = "done"
    /\ erch["c1"] # Nil

\* ---- C25 ----
AcceptedBySome(x) == \E i \in Parsers : Accepts(i, x)
SentOnSrc == [k \in 1..Len(tsent) |-> tsent[k].x]

\* C25 as stated: ParseTagged forwards every event of a run of events
\* accepted by the selected parser to that parser's sub-stream, in order
\* and including the event that caused the parser to be selected: when
\* ParseTagged has no event in hand, the events sent on src are the
\* accepted events received from in. The code never sends the event that
\* selects a parser.
C25_AsStated ==
    tpc \in {"recv", "waitEnd", "done"} =>
        SentOnSrc = SelectSeq(tseen, AcceptedBySome)

\* ---- C26 ----
Active == {i \in Parsers : prs[i].fn \notin {"idle", "closed"}}
Drained ==
    /\ fw.st \in {"off", "done"} /\ fw.buf = <<>>
    /\ \A i \in Parsers : prs[i].fn \in {"idle", "closed"} /\ prs[i].emit = <<>>
FirstAccepting(x) ==
    CHOOSE i \in Parsers : Accepts(i, x) /\ \A j \in 1..(i - 1) : ~Accepts(j, x)

\* C26, in every state: at most one parser is active; what was received
\* on out is in source order (an event that no parser accepts is there
\* unchanged, a record of a parser stands at the place of the run it was
\* made from); an event is sent on out only when the parser of the run
\* before it has ended and all its records were received on out.
C26_Order ==
    /\ Cardinality(Active) <= 1
    /\ \A k \in 1..Len(tout.got) :
          /\ k > 1 => tout.got[k - 1].at <= tout.got[k].at
          /\ tout.got[k].from = "in" =>
                /\ tout.got[k].v = tseen[tout.got[k].at]
                /\ ~AcceptedBySome(tout.got[k].v)
                /\ k > 1 => tout.got[k - 1].at < tout.got[k].at
    /\ tpc = "pass" => Drained
\* C26, in every step: a parser is selected only when the forwarding of
\* the parser before it has ended and that parser has closed its output,
\* and it is the first parser of the list that accepts the event.
C26_Select ==
    (tcur' # tcur /\ tcur' # Nil) =>
        /\ Drained
        /\ tcur' = FirstAccepting(tseen'[Len(tseen')])
\* C26: ParseTagged keeps at most one parser active and preserves source
\* order on out; a new parser, the first in list order that accepts, is
\* selected only after the output of the parser before it was drained.
C26_OneParserInOrder == []C26_Order /\ [][C26_Select]_vars
\* A record of a parser was received on out, then an event that no parser
\* accepts, and another parser run was started after that.
C26_Witness ==
    /\ \E k \in 1..(Len(tout.got) - 1) :
          tout.got[k].from = "parser" /\ tout.got[k + 1].from = "in"
    /\ tcur # Nil /\ tin.n = MaxTagged

\* ---- C27 ----
\* The input of the test is whole and the parser has closed its output.
TestDone(kind) ==
    /\ pdoc.kind = kind /\ pdoc.ended /\ ~pdoc.cut
    /\ prs[pdoc.p].fn = "closed"
\* A top-level position line with its source fragment, then `Located in`
\* lines, each with its source fragment.
PositionInput(items) ==
    /\ items # <<>> /\ items[1] \in EpoTops
    /\ \A k \in 2..Len(items) : items[k] \in EpoLinks
\* The node number k of the chain that begins at n, Nil when the chain is
\* shorter.
RECURSIVE NthNode(_, _, _)
NthNode(h, n, k) ==
    IF k = 0 \/ n = Nil THEN n ELSE NthNode(h, h[n].LocatedIn, k - 1)
\* The node n of the heap h says what the item it says.
NodeIs(h, n, it) ==
    /\ n # Nil
    /\ h[n].File = (IF it.form = "file" THEN it.file ELSE <<>>)
    /\ h[n].Eval = (it.form = "eval")
    /\ h[n].Row = it.row /\ h[n].Column = it.col
    /\ h[n].SourceFragment = Tail(Fragment)
ChainIs(h, root, items) ==
    /\ \A k \in 1..Len(items) : NodeIs(h, NthNode(h, root, k - 1), items[k])
    /\ h[NthNode(h, root, Len(items) - 1)].LocatedIn = Nil

\* C27 as stated: for a top-level position line, its source fragment and
\* N `Located in` lines, each with its source fragment, the parser emits
\* nothing before the end of the input and then exactly one record, whose
\* LocatedIn chain has the root and N nodes in input order and ends; the
\* node of a bare `Located in:` has empty location fields. The code
\* answers a top-level `In file ...` line with an error value.
C27_AsStated ==
    /\ (pdoc.kind = "epo" /\ PositionInput(pdoc.items) /\ ~pdoc.ended) =>
          pgot = <<>>
    /\ (TestDone("epo") /\ PositionInput(pdoc.items)) =>
          /\ Len(pgot) = 1
          /\ pgot[1].kind = "ErrorPosition"
          /\ ChainIs(prs[pdoc.p].heap, pgot[1].root, pdoc.items)

\* ---- C28 ----
IsErrorValue(v) == v.kind = "error"
\* Records, then at most one error value, which is the last value.
RecordsThenError(got) ==
    \A k \in 1..Len(got) : IsErrorValue(got[k]) => k = Len(got)

\* C28 as stated: whatever the lines are and wherever the input ends, a
\* parser sends records and then at most one error value, and it neither
\* panics nor stays in a loop that cannot end. The code panics for input
\* that ends inside a traceback frame and loops for input that ends
\* behind a signature statement.
C28_AsStated ==
    /\ \A i \in Parsers : prs[i].fn \notin {"panic", "spin"}
    /\ RecordsThenError(pgot)

\* ---- C29 ----
IsFrame(it) == it.type = "frame"
\* Well-formed frames, with blank lines between frames.
FramesInput(items) == \A k \in 1..Len(items) : items[k] \in TbFrames \cup {Blank}
\* The record r is the record of the frame it.
RecordOf(r, it) ==
    /\ r.kind = "Traceback"
    /\ r.Index = it.index
    /\ r.Current => it.star
    /\ it.index # NoIndex => r.Current = it.star /\ r.Name = it.name
    /\ r.Params = [i \in 1..Len(it.params) |->
                      [Name |-> it.params[i].Name, Value |-> it.params[i].Value]]
RecordsOf(got, frames) ==
    /\ Len(got) <= Len(frames)
    /\ \A k \in 1..Len(got) : RecordOf(got[k], frames[k])

\* C29: for input made of k well-formed frames, blank lines between them
\* allowed, the traceback parser emits the records of the frames in
\* input order, exactly k of them when it has closed its output, and
\* does not stop in another way: at the end of the input it is between
\* frames, where it ends and closes its output; a record has Index NoIndex unless its
\* header began with #N, Current only with the * marker, and the
\* parameters in input order.
C29_Frames ==
    (pdoc.kind = "tb" /\ FramesInput(pdoc.items) /\ ~pdoc.cut) =>
        /\ prs[pdoc.p].fn \notin {"panic", "spin"}
        /\ RecordsOf(pgot, SelectSeq(pdoc.items, IsFrame))
        /\ prs[pdoc.p].fn = "closed" =>
              Len(pgot) = Len(SelectSeq(pdoc.items, IsFrame))
        /\ (pdoc.ended /\ prs[pdoc.p].inq = <<>>) =>
              prs[pdoc.p].fn \in {"parseTraceback", "end", "closed"}
\* Two frames with a blank line between them were parsed: one without
\* index, one with index, marker and parameters.
C29_Witness ==
    /\ TestDone("tb") /\ FramesInput(pdoc.items)
    /\ Len(pdoc.items) = 3 /\ pdoc.items[2] = Blank
    /\ Len(pgot) = 2
    /\ pgot[1].Index = NoIndex /\ pgot[2].Index = 1 /\ pgot[2].Current
    /\ Len(pgot[2].Params) = 2 /\ pgot[1].Location.Row = 12

\* ---- C30 ----
\* The header `Intrinsic 'N'`, then signatures, each with a comment that
\* an empty line ends.
ListingInput(items) ==
    /\ items # <<>> /\ items[1] = SigHeader
    /\ \A k \in 2..Len(items) :
          /\ items[k].type = "sig" /\ items[k].name = <<>>
          /\ items[k].comment # <<>>
\* The record r is the record of the signature it of the listing of N.
SignatureOf(r, it, N) ==
    /\ r.kind = "Signature"
    /\ r.Intrinsic = N
    /\ r.Location.File = (IF it.loc = "file" THEN <<"f">> ELSE <<>>)
    /\ r.Location.Glue = (IF it.loc = "glue" THEN <<"g">> ELSE <<>>)
    /\ (r.OptionalParams # <<>>) = it.opt
    /\ r.Comment = (IF Len(it.comment) = 1 THEN it.comment[1]
                    ELSE it.comment[1] \o <<" ">> \o it.comment[2])

\* C30: for a listing with the header `Intrinsic 'N'` and k signatures,
\* each with a comment that an empty line ends, the signature parser
\* emits the records of the signatures in input order, each with
\* Intrinsic N, exactly k of them when it has closed its output, and does
\* not stop in another way: at the end of the input it is between
\* signatures, where it ends and closes its output.
C30_Listing ==
    (pdoc.kind = "sig" /\ ListingInput(pdoc.items) /\ ~pdoc.cut) =>
        /\ prs[pdoc.p].fn \notin {"panic", "spin"}
        /\ Len(pgot) <= Len(pdoc.items) - 1
        /\ \A k \in 1..Len(pgot) :
              SignatureOf(pgot[k], pdoc.items[k + 1], pdoc.items[1].name)
        /\ prs[pdoc.p].fn = "closed" => Len(pgot) = Len(pdoc.items) - 1
        /\ (pdoc.ended /\ prs[pdoc.p].inq = <<>>) =>
              prs[pdoc.p].fn \in {"parseSignature", "end", "closed"}
\* A listing of two signatures was parsed: one with optional parameters,
\* one with the file it is defined in.
C30_Witness ==
    /\ TestDone("sig") /\ ListingInput(pdoc.items)
    /\ Len(pgot) = 2
    /\ pgot[1].OptionalParams # <<>> /\ pgot[1].Intrinsic = <<"N">>
    /\ pgot[2].Location.Row = 722 /\ Len(pgot[2].Params) = 2

\* ---- C31 ----
\* The characters of the command texts of the model.
CmdText(cmd) ==
    CASE cmd = QuitCmd -> <<"q", "u", "i", "t", ";">>
      [] cmd = StartupCmd -> <<"<", "s", "t", "a", "r", "t", "u", "p", ">">>
      [] OTHER -> <<cmd>>
\* The chunk of the RUN or ERP tag line number j.
ChunkAt(j) ==
    IF seen[j].tagName = "RUN" THEN parseRun(seen[j].tagFields).val.chunk
    ELSE parseResponse(seen[j].tagFields).val
\* The part of the text from the start to the end of a chunk c that lies
\* in one row.
Substring(text, c) ==
    SubSeq(Split(text, NL)[c.start.Row + 1], c.start.Column + 1, c.end.Column)

\* C31 as stated: for a Run or ParseError Response, Command() returns the
\* part of the submitted command text that the chunk of the RUN or ERP
\* tag delimits. The code makes every Response without a command text.
C31_AsStated ==
    \A i \in 1..Len(resps) :
        (resps[i].kind \in {"Run", "ParseError"} /\ resps[i].of # Nil) =>
            Command(resps[i]) =
                Substring(CmdText(outs[resps[i].of].cmd), ChunkAt(resps[i].at))

\* ---- C32 ----
\* The registered Quit call c is parked in a receive that only a tag line of
\* the child can satisfy: the offer of p.ready is made on a RDY line, the
\* Output on p.response on an IR line.
QuitAwaitsTag(c) ==
    /\ qpc[c] = "exec"
    /\ \/ epc[c] = "idle" /\ ready = <<>> /\ chclosed["ready"] = 0
       \/ epc[c] = "awaitResp" /\ response = <<>> /\ chclosed["response"] = 0

\* C32 as stated: Quit blocks its caller only long enough to register the
\* acknowledgment channel, so a registered Quit call never waits for a tag
\* line of the child.
C32_AsStated == \A c \in Quitters : ~QuitAwaitsTag(c)

\* The Output o was bound by the decoder on an IR line.
BoundByIR(o) ==
    \E k \in 1..Len(bound) :
        /\ bound[k].out = o /\ bound[k].at \in 1..Len(seen)
        /\ seen[bound[k].at].tagName = "IR"

\* The acknowledgment channel of the Quit call c was closed by the decoder.
QuitAcked(c) == qch[c] # Nil /\ acks[qch[c]].closed > 0

\* C32: InterruptExecution returns in the step that registers its channel
\* and signals the child, whatever the decoder has seen. Quit registers its
\* channel without blocking and then runs Execute("quit;"): a Quit that
\* returned its channel has had the Output of that command bound on an IR
\* line, so it did wait for tag lines; neither call waits for the
\* acknowledgment, which is a separate receive.
C32_ReturnsAfterIR ==
    /\ [](\A c \in Quitters :
            QuitResult(c) = "ok" => qch[c] # Nil /\ BoundByIR(eout[c]))
    /\ [][icalls' # icalls =>
            /\ last'.op = "InterruptExecution"
            /\ seen' = seen
            /\ (last'.kind = "ok" => ich' # Nil /\ acks'[ich'].closed = 0)]_vars

\* A Quit call has returned its channel while the QUIT line was not decoded
\* and the channel is still open, and an InterruptExecution has returned
\* its own, open as well.
C32_Witness ==
    /\ \E c \in Quitters : QuitResult(c) = "ok" /\ ~QuitAcked(c)
    /\ last.op = "InterruptExecution" /\ last.kind = "ok"
    /\ ich # Nil /\ acks[ich].closed = 0

\* ---- C33 ----
\* The decoder takes, in this step, a line with the given tag in its main
\* loop.
MainLoopTakes(tag) ==
    /\ dpc = "read" /\ Len(seen') = Len(seen) + 1
    /\ seen'[Len(seen')].tagName = tag

\* The offer the decoder holds in rch was answered by an Execute call.
OfferAnswered == rch # Nil /\ rchs[rch].buf # <<>>

\* In this step the decoder made an offer channel; it bound an Output.
OfferMade == Len(rchs') > Len(rchs)
OutputBound == Len(bound') > Len(bound)

\* C33: handshake offers and Output bindings strictly alternate. An offer is
\* made only on a RDY line that finalizes a bound Output, and a RDY line
\* with no Output bound makes none; once the startup Output is bound, an
\* Output is bound only on an IR line that finds the outstanding offer
\* answered, and that binding uses the offer up; an IR line that finds no
\* answered offer ends the decoder with the error of the protocol. So the
\* decoder holds a bound Output or an outstanding offer, never both, at most
\* one offer is outstanding (the only one p.ready can hold), and the
\* decoder is never parked in the send on p.ready.
C33_Alternate ==
    /\ [](/\ Len(ready) <= 1
          /\ ready # <<>> => ready[1] = rch
          /\ ~(h_r # Nil /\ rch # Nil)
          /\ dpc # "putReady")
    /\ [][/\ OfferMade =>
               /\ MainLoopTakes("RDY") /\ h_r # Nil /\ rch = Nil
               /\ h_r' = Nil /\ rch' = Len(rchs') /\ ready' = <<rch'>>
          /\ (MainLoopTakes("RDY") /\ h_r = Nil) => ~OfferMade /\ ready' = ready
          /\ (OutputBound /\ bound # <<>>) =>
               /\ MainLoopTakes("IR") /\ OfferAnswered /\ h_r = Nil
               /\ h_r' = Head(rchs[rch].buf) /\ rch' = Nil
               /\ bound'[Len(bound')].out = h_r'
          /\ (MainLoopTakes("IR") /\ ~OfferAnswered) =>
               /\ ~OutputBound
               /\ derr' = "expected Output to be waiting"]_vars

\* An Output was bound after the startup Output, on the offer made for it,
\* a second offer was made when that Output was finalized, and a RDY line
\* that found no Output bound has made no offer.
C33_Witness ==
    /\ Len(bound) >= 2 /\ Len(rchs) >= 2
    /\ \E j \in 2..Len(seen) :
          seen[j].tagName = "RDY" /\ seen[j - 1].tagName = "RDY"

\* ---- C34 ----
\* The child has written all the lines of this run.
Silenced == used.line >= MaxLines

\* The Execute call c has taken an offer and has not returned.
InExecute(c) == epc[c] \notin {"idle", "done", "failed", "panic"}

\* The decoder is parked in a send or a receive other than the receive of
\* the next line.
DecoderParked ==
    dpc \in {"sendResp", "sendEvent", "awaitReply", "awaitWriter", "write2",
             "putReady", "putResponse"}

\* The decoder waits for the stdin writer for a read reply while an Execute
\* call holds it and waits for its Output.
WriterCycle ==
    /\ dpc = "awaitWriter" /\ writer = <<>>
    /\ \E c \in Callers : epc[c] = "awaitResp" /\ ew[c] # ""

\* C34: with the status stream consumed, every Output drained and its read
\* requests answered, and a child that answers each command with IR and in
\* the end RDY, every Execute call that has taken an offer returns its
\* Output and the decoder comes back to reading lines, as long as the child
\* has lines left to write; the decoder never waits for the stdin writer
\* while an Execute call holds it awaiting its Output.
C34_Progress ==
    /\ \A c \in Callers : InExecute(c) ~> (Succeeded(c) \/ Silenced)
    /\ DecoderParked ~> (dpc \in {"read", "readPrompt"} \/ Silenced)
    /\ []~WriterCycle

\* Both calls have returned, the decoder wrote the reply to a read, taking
\* the stdin writer for it, and is back at reading lines with lines left.
C34_Witness ==
    /\ \A c \in Callers : Succeeded(c)
    /\ \E j \in 1..Len(stdin) : stdin[j].by = "dec" /\ stdin[j].text = NL
    /\ dpc = "read" /\ ~Silenced

\* ---- C35 ----
\* C35: rhandler.init is never invoked while an Output is bound, whatever
\* lines the child writes and whenever Execute is called: no binding is
\* made over a bound Output, and the decoder never ends in the panic of
\* init.
C35_InitUnbound ==
    /\ [](derr # "panic: should not have r set here")
    /\ [][OutputBound => h_r = Nil /\ h_r' = bound'[Len(bound')].out]_vars

\* init was invoked for the startup Output and again, on an IR line, for
\* the Output of an Execute call, which is the one now bound.
C35_Witness ==
    /\ Len(bound) >= 2 /\ h_r = bound[Len(bound)].out
    /\ seen # <<>> /\ seen[Len(seen)].tagName = "IR"

\* ---- C36 ----
\* The decoder takes, in its main loop, a well-formed line that violates
\* the protocol: an output line while no Response is open, or a RUN, ERP or
\* EI line while no Output is bound.
ViolationLine ==
    /\ dpc = "read" /\ pipe # <<>> /\ seen' # seen
    /\ \/ Head(pipe) \in {OutLine, EneLine} /\ h_c = Nil
       \/ Head(pipe) \in {RunLine, ErpLine, EiLine} /\ h_r = Nil

\* C36 as stated: a protocol violation ends the decoder with an error, which
\* Wait then returns, and never with a panic.
C36_AsStated ==
    [][ViolationLine => dpc' = "done" /\ derr' # "" /\ errch' = Append(errch, derr')]_vars

\* ---- C37 ----
\* The parsers take the steps they can take.
ParsersRun == []<>~ParserCanStep

\* A parser has panicked, or loops without fetching a line.
ParserLost == ~Alive \/ \E i \in Parsers : prs[i].fn = "spin"

\* C37 as stated: with an input of finitely many events that is then
\* closed, an out that is consumed and parsers that run, ParseTagged
\* eventually closes out (a parser that panics or never returns apart).
C37_AsStated == ParsersRun => <>(tout.closed \/ ParserLost)

\* ---- C38 ----
\* C38 as stated: a line handed to the decoder is stable while the decoder
\* works on it: as long as the decoder holds it, the line shows the bytes
\* it showed when it was delivered, and so does every line the decoder has
\* read.
C38_AsStated ==
    /\ dline.pc = "proc" => lineBytes(scanner.buf, dline.output) = dline.sent
    /\ \A k \in 1..Len(dline.log) : dline.log[k].read = dline.log[k].sent

\* ---- C39 ----
\* The decoder takes, in its main loop, an output line with exactly one
\* auxiliary field and forwards the Line made from it.
ForwardsLine ==
    /\ dpc = "read" /\ pipe # <<>> /\ seen' # seen
    /\ Head(pipe).mark /\ Len(Head(pipe).head) = 2
    /\ Head(pipe).head[1] \in LineTagNames
    /\ Len(fwd') = Len(fwd) + 1

\* C39 as stated: the Line forwarded for an output line with one auxiliary
\* field has Continuation set and Indent 0 when the field is "C", else
\* Continuation unset and Indent the integer value of the field, and its
\* Data is the data segment of the line with only the trailing whitespace
\* removed.
C39_AsStated ==
    [][ForwardsLine =>
          LET line == Head(pipe)
              ev == fwd'[Len(fwd')].ev
          IN  /\ ev.tag = line.head[1]
              /\ ev.Continuation = (line.head[2] = "C")
              /\ ev.Indent = IF line.head[2] = "C" THEN 0 ELSE Atoi(line.head[2])
              /\ ev.Data = TrimRight(line.data)]_vars

\* ---- C40 ----
\* The nodes of the chain that begins at the node n of the heap h.
ChainNodes(h, n) ==
    {NthNode(h, n, k) : k \in 0..Len(h)} \ {Nil}

EmittedNodes ==
    UNION {ChainNodes(prs[pdoc.p].heap, pgot[k].root) :
             k \in {j \in 1..Len(pgot) : pgot[j].kind = "ErrorPosition"}}

====
